---- MODULE Spec2Model ----
(***************************************************************************)
(* A model of the recommendation pipeline of azure-recommendation-system:  *)
(* the per-user orchestrator (RecommendationManager), the batch loop, the  *)
(* document-store gateway operations it calls (CosmosHelper), the skip     *)
(* policy (UserManager.should_skip_update) and the LLM step                *)
(* (AzureOpenAIHelper.generate_llm_only_recommendations).                  *)
(*                                                                         *)
(* Time is counted in whole hours.  External systems (the document store,  *)
(* the trend feeds, the chat-completion endpoint) are the environment: at  *)
(* every call the model chooses one of the outcomes the call can have.     *)
(***************************************************************************)
EXTENDS Integers, Sequences, FiniteSets, TLC

(***************************************************************************)
(* Bounds of the model.                                                    *)
(***************************************************************************)
MaxBatch == 2
MaxClock == 25
CandidateLimit == 3
ArticleWildcard == 2
MaxSkipTime == 5
MaxRequest == 3
MaxCacheOps == 4
MaxExternalWrites == 1

(***************************************************************************)
(* Program constants.                                                      *)
(***************************************************************************)
max_retries == 3
hours_threshold_default == 24
prepare_limit_default == 50
MaxStoredEntries == 20
cache_ttl == 300

UserIds == {"u1", "u2", "u3"}

Min(a, b) == IF a < b THEN a ELSE b
Max(a, b) == IF a > b THEN a ELSE b

Range(s) == {s[i] : i \in 1..Len(s)}

Take(s, n) == SubSeq(s, 1, Min(n, Len(s)))

\* All orders in which the elements of a finite set can be listed.
Orderings(S) ==
    {s \in [1..Cardinality(S) -> S] :
        \A i, j \in 1..Cardinality(S) : i # j => s[i] # s[j]}

(***************************************************************************)
(* Timestamps.  recommendations_updated_at is an ISO string or absent; an  *)
(* ISO string either carries a UTC designator ('Z' or an offset) or is     *)
(* naive.  t is the instant it denotes, in hours.                          *)
(***************************************************************************)
NoStamp == [present |-> FALSE, aware |-> FALSE, t |-> 0]
NaiveStamp(t) == [present |-> TRUE, aware |-> FALSE, t |-> t]
AwareStamp(t) == [present |-> TRUE, aware |-> TRUE, t |-> t]

(***************************************************************************)
(* The articles container.                                                 *)
(* A document may lack the key abstract or tags, or hold an explicit null  *)
(* there: has_abstract / has_tags say the key is present, abstract_null /  *)
(* tags_null that its value is null.                                       *)
(***************************************************************************)
Article(id, abstract, active, status) ==
    [id |-> id, abstract |-> abstract, is_active |-> active, status |-> status,
     tags |-> << >>, has_abstract |-> TRUE, abstract_null |-> FALSE,
     has_tags |-> TRUE, tags_null |-> FALSE]

WithoutAbstract(a) == [a EXCEPT !.has_abstract = FALSE, !.abstract = ""]
NullAbstract(a) == [a EXCEPT !.abstract_null = TRUE, !.abstract = ""]
WithoutTags(a) == [a EXCEPT !.has_tags = FALSE]
NullTags(a) == [a EXCEPT !.tags_null = TRUE]

ArticleStore ==
    << Article("A", "abs-A", TRUE, "published"),
       Article("B", "abs-B", TRUE, "published"),
       Article("C", "abs-C", TRUE, "published"),
       Article("D", "abs-D", FALSE, "draft") >>

ArticleIds == {ArticleStore[i].id : i \in 1..Len(ArticleStore)}

RECURSIVE Filter(_, _)
\* the subsequence of s whose ids are in the set keep
Filter(s, keep) ==
    IF s = << >> THEN << >>
    ELSE IF Head(s).id \in keep
         THEN << Head(s) >> \o Filter(Tail(s), keep)
         ELSE Filter(Tail(s), keep)

RECURSIVE Reject(_, _)
\* the subsequence of s whose ids are not in the set drop
Reject(s, drop) ==
    IF s = << >> THEN << >>
    ELSE IF Head(s).id \in drop
         THEN Reject(Tail(s), drop)
         ELSE << Head(s) >> \o Reject(Tail(s), drop)

(***************************************************************************)
(* User documents.                                                         *)
(***************************************************************************)
UserDoc(liked, bookmarked, disliked, stamp) ==
    [liked_articles |-> liked,
     bookmarked_articles |-> bookmarked,
     disliked_articles |-> disliked,
     tags_recommendation |-> << >>,
     articles_recommendation |-> << >>,
     id_articles_for_recommendation |-> << >>,
     recommendations_updated_at |-> stamp,
     time_stamp_recommend |-> 0]

InteractedIds(user) ==
    Range(user.liked_articles) \cup Range(user.bookmarked_articles)
        \cup Range(user.disliked_articles)

(***************************************************************************)
(* UserManager.should_skip_update.  datetime.fromisoformat yields an aware *)
(* datetime for a string with a UTC designator and a naive one otherwise;  *)
(* datetime.utcnow() is naive, and subtracting an aware datetime from a    *)
(* naive one raises TypeError, which the handler turns into False.         *)
(***************************************************************************)
fromisoformat(last_updated) == [aware |-> last_updated.aware, t |-> last_updated.t]

SubtractionRaises(naive_now, last_update) == last_update.aware

should_skip_update(user_data, hours_threshold, utcnow) ==
    LET last_updated == user_data.recommendations_updated_at IN
    IF ~last_updated.present THEN FALSE
    ELSE LET last_update == fromisoformat(last_updated) IN
         IF SubtractionRaises(utcnow, last_update) THEN FALSE
         ELSE (utcnow - last_update.t) < hours_threshold

(***************************************************************************)
(* UserManager.prepare_user_article_ids: list(set(...))[:limit].  The      *)
(* iteration order of a Python set is not specified, so the result is any  *)
(* ordering of the set, cut to limit.                                      *)
(***************************************************************************)
prepare_user_article_ids(user_data, limit) ==
    {Take(o, limit) : o \in Orderings(InteractedIds(user_data))}

(***************************************************************************)
(* CosmosHelper.get_articles_by_ids and its per-id fallback.  batch is the *)
(* outcome of the batched query; readable is the set of ids whose point    *)
(* read succeeds when the fallback runs.                                   *)
(***************************************************************************)
RECURSIVE get_articles_by_ids_fallback(_, _)
get_articles_by_ids_fallback(article_ids, readable) ==
    IF article_ids = << >> THEN << >>
    ELSE LET id == Head(article_ids)
             rest == get_articles_by_ids_fallback(Tail(article_ids), readable)
         IN IF id \in ArticleIds /\ id \in readable
            THEN Filter(ArticleStore, {id}) \o rest
            ELSE rest

get_articles_by_ids(article_ids, batch, readable) ==
    IF article_ids = << >> THEN << >>
    ELSE IF batch = "ok" THEN Filter(ArticleStore, Range(article_ids))
    ELSE get_articles_by_ids_fallback(article_ids, readable)

(***************************************************************************)
(* The article cache: article id -> [article, timestamp].                  *)
(***************************************************************************)
CacheEntry(article, timestamp) == [article |-> article, timestamp |-> timestamp]

\* the article cache is empty after construction (line 32)
NoCache == [id \in {} |-> CacheEntry(<< >>, 0)]

\* del self._article_cache[article_id]
CacheWithout(cache, article_id) ==
    [id \in DOMAIN cache \ {article_id} |-> cache[id]]

\* self._article_cache[article_id] = entry
CacheWith(cache, article_id, entry) ==
    [id \in DOMAIN cache \cup {article_id} |->
        IF id = article_id THEN entry ELSE cache[id]]

\* _is_cache_valid, line 128
is_cache_valid(cache_entry, time) == time - cache_entry.timestamp < cache_ttl

\* _get_from_cache, lines 130-147: the cached articles, the ids that missed
\* and the cache without the expired entries that were looked up
RECURSIVE get_from_cache(_, _, _)
get_from_cache(article_ids, cache, time) ==
    IF article_ids = << >>
    THEN [cached_articles |-> << >>, missing_ids |-> << >>, cache |-> cache]
    ELSE LET article_id == Head(article_ids) IN
         IF article_id \in DOMAIN cache
         THEN IF is_cache_valid(cache[article_id], time)
              THEN LET r == get_from_cache(Tail(article_ids), cache, time)
                   IN [r EXCEPT !.cached_articles = << cache[article_id].article >> \o @]
              ELSE LET r == get_from_cache(Tail(article_ids),
                                           CacheWithout(cache, article_id), time)
                   IN [r EXCEPT !.missing_ids = << article_id >> \o @]
         ELSE LET r == get_from_cache(Tail(article_ids), cache, time)
              IN [r EXCEPT !.missing_ids = << article_id >> \o @]

\* _update_cache, lines 149-158
RECURSIVE update_cache(_, _, _)
update_cache(articles, cache, current_time) ==
    IF articles = << >> THEN cache
    ELSE update_cache(Tail(articles),
                      CacheWith(cache, Head(articles).id,
                                CacheEntry(Head(articles), current_time)),
                      current_time)

(***************************************************************************)
(* CosmosHelper.get_articles_by_ids_optimized with the cache it reads and  *)
(* updates at the clock reading time.  query is the outcome of the query   *)
(* for the missing ids; when it raises the call falls back to              *)
(* get_articles_by_ids for the whole list.  asked is the set of ids the    *)
(* call sent to the articles container.                                    *)
(***************************************************************************)
\* a handler that returns what the cache held
OptimizedExceptReturnsCached(article_ids, looked_up, batch, readable) ==
    [returned |-> looked_up.cached_articles,
     cache |-> looked_up.cache,
     asked |-> Range(looked_up.missing_ids),
     fell_back |-> TRUE]

\* the handler of lines 201-204
OptimizedExcept(article_ids, looked_up, batch, readable) ==
    [returned |-> get_articles_by_ids(article_ids, batch, readable),
     cache |-> looked_up.cache,
     asked |-> Range(article_ids),
     fell_back |-> TRUE]

get_articles_by_ids_cached(article_ids, cache, time, query, batch, readable) ==
    IF article_ids = << >>
    THEN [returned |-> << >>, cache |-> cache, asked |-> {}, fell_back |-> FALSE]
    ELSE LET looked_up == get_from_cache(article_ids, cache, time) IN
         IF looked_up.missing_ids = << >>
         THEN [returned |-> looked_up.cached_articles, cache |-> looked_up.cache,
               asked |-> {}, fell_back |-> FALSE]
         ELSE IF query = "ok"
         THEN LET db_articles == Filter(ArticleStore, Range(looked_up.missing_ids))
              IN [returned |-> looked_up.cached_articles \o db_articles,
                  cache |-> update_cache(db_articles, looked_up.cache, time),
                  asked |-> Range(looked_up.missing_ids),
                  fell_back |-> FALSE]
         ELSE OptimizedExcept(article_ids, looked_up, batch, readable)

\* what a call returns when the cache is empty, as it is when a process
\* starts; the articles container does not change, so a valid cache entry
\* holds what the query would return
get_articles_by_ids_optimized(article_ids, query, batch, readable) ==
    get_articles_by_ids_cached(article_ids, NoCache, 0, query, batch, readable).returned

(***************************************************************************)
(* UserManager.get_user_articles_with_interactions: the fetched articles,  *)
(* each annotated with the interaction lists that contain its id.          *)
(***************************************************************************)
interaction_types(user_data, article_id) ==
    (IF article_id \in Range(user_data.liked_articles) THEN {"liked"} ELSE {})
    \cup (IF article_id \in Range(user_data.bookmarked_articles) THEN {"bookmarked"} ELSE {})
    \cup (IF article_id \in Range(user_data.disliked_articles) THEN {"disliked"} ELSE {})

\* Annotate that leaves an annotation the article already carries
AnnotateOnce(article, types) ==
    [k \in DOMAIN article \cup {"interaction_types"} |->
        IF k \in DOMAIN article THEN article[k] ELSE types]

\* line 107: article["interaction_types"] = interaction_types, set on the
\* article dict itself, whatever it held under that key
Annotate(article, types) ==
    [k \in DOMAIN article \cup {"interaction_types"} |->
        IF k = "interaction_types" THEN types ELSE article[k]]

\* the cache after the loop of lines 96-107 went over articles: a cache entry
\* holds the article dict itself, so the annotation set on a returned
\* article that is a cache entry's dict shows in the cache
CacheAfterAnnotation(cache, annotated) ==
    [id \in DOMAIN cache |->
        IF \E i \in 1..Len(annotated) : annotated[i].id = id
        THEN CacheEntry(annotated[CHOOSE i \in 1..Len(annotated) : annotated[i].id = id],
                        cache[id].timestamp)
        ELSE cache[id]]

\* the call with the cache it shares with every other call: when the
\* gateway fell back to get_articles_by_ids the returned dicts are new ones
\* and no cache entry is touched
get_user_articles_with_interactions_cached(user_data, all_article_ids, cache, time, query, batch, readable) ==
    IF all_article_ids = << >>
    THEN [returned |-> << >>, cache |-> cache, fell_back |-> FALSE]
    ELSE LET r == get_articles_by_ids_cached(all_article_ids, cache, time,
                                             query, batch, readable)
             annotated == [i \in 1..Len(r.returned) |->
                             Annotate(r.returned[i],
                                      interaction_types(user_data, r.returned[i].id))]
         IN [returned |-> annotated,
             cache |-> IF r.fell_back THEN r.cache
                       ELSE CacheAfterAnnotation(r.cache, annotated),
             fell_back |-> r.fell_back]

\* the call in a process whose cache is still empty
get_user_articles_with_interactions(user_data, all_article_ids, query, batch, readable) ==
    get_user_articles_with_interactions_cached(
        user_data, all_article_ids, NoCache, 0, query, batch, readable).returned

(***************************************************************************)
(* CosmosHelper.get_candidate_articles.  filtered and unfiltered are the   *)
(* outcomes of the two queries; a raise anywhere gives the empty list.     *)
(***************************************************************************)
IsActivePublished(a) == a.is_active /\ a.status = "published"

ActivePublishedIds ==
    {ArticleStore[i].id : i \in {j \in 1..Len(ArticleStore) :
        IsActivePublished(ArticleStore[j])}}

\* dict.setdefault for abstract and tags: an absent key gets the default, a
\* key that is present keeps its value, null included
setdefault(it) ==
    [it EXCEPT !.abstract = IF it.has_abstract THEN @ ELSE "",
               !.has_abstract = TRUE,
               !.tags = IF it.has_tags THEN @ ELSE << >>,
               !.has_tags = TRUE]

\* CandidateLoop with the test of line 256 dropped
CandidateLoopKeepsAll(items, exclude_ids) ==
    [i \in 1..Len(items) |-> setdefault(items[i])]

\* the loop of lines 254-261
CandidateLoop(items, exclude_ids) ==
    LET kept == Reject(items, exclude_ids)
    IN [i \in 1..Len(kept) |-> setdefault(kept[i])]

\* NeedsFallback that also asks again when every row is excluded
NeedsFallbackWhenNoneLeft(items, exclude_ids) == Reject(items, exclude_ids) = << >>

\* line 247: if not items
NeedsFallback(items, exclude_ids) == items = << >>

\* get_candidate_articles on the articles container store: what it returns
\* and whether it issued the unfiltered query
get_candidate_articles_call(store, exclude_ids, limit, filtered, unfiltered) ==
    IF filtered = "raise" THEN [returned |-> << >>, fallback_issued |-> FALSE]
    ELSE LET items == Take(SelectSeq(store, IsActivePublished), limit) IN
         IF NeedsFallback(items, Range(exclude_ids))
         THEN [returned |-> IF unfiltered = "raise" THEN << >>
                            ELSE CandidateLoop(Take(store, limit), Range(exclude_ids)),
               fallback_issued |-> TRUE]
         ELSE [returned |-> CandidateLoop(items, Range(exclude_ids)),
               fallback_issued |-> FALSE]

get_candidate_articles_from(store, exclude_ids, limit, filtered, unfiltered) ==
    get_candidate_articles_call(store, exclude_ids, limit, filtered, unfiltered).returned

get_candidate_articles(exclude_ids, limit, filtered, unfiltered) ==
    get_candidate_articles_from(ArticleStore, exclude_ids, limit, filtered, unfiltered)

(***************************************************************************)
(* TrendingHelper.get_trending_articles.  news and reddit are the lists    *)
(* the two feed readers return (each returns [] when its feed fails or,    *)
(* for the keyed feed, when no key is configured).                         *)
(***************************************************************************)
TrendArticle(id, abstract, source) == [id |-> id, abstract |-> abstract, source |-> source]

NewsFeedArticle == TrendArticle("newsapi-ai-0", "news-abs", "newsapi")
RedditFeedArticle == TrendArticle("reddit-ai-0", "reddit-abs", "reddit")

\* NEWS_API_KEY is optional and not configured here: the keyed reader returns []
NewsFeedOutcomes == {<< >>}
RedditFeedOutcomes == {<< >>, << RedditFeedArticle >>}

RECURSIVE UniqueById(_, _, _, _)
\* the loop of lines 91-96: keep first occurrences, stop once limit are kept
UniqueById(trending, seen_ids, unique_articles, limit) ==
    IF trending = << >> THEN unique_articles
    ELSE LET article == Head(trending) IN
         IF article.id \notin seen_ids
         THEN LET kept == Append(unique_articles, article) IN
              IF Len(kept) >= limit THEN kept
              ELSE UniqueById(Tail(trending), seen_ids \cup {article.id}, kept, limit)
         ELSE UniqueById(Tail(trending), seen_ids, unique_articles, limit)

get_trending_articles(news, reddit, limit) ==
    UniqueById(Take(news, limit) \o Take(reddit, limit), {}, << >>, limit)

(***************************************************************************)
(* TrendingHelper with its feeds.  A feed's outcome is that the request    *)
(* raised or the items found; a reader turns it into the list it returns.  *)
(* Topics are strings; the id f"{source}-{topic}-{n}" of a feed article is *)
(* the tuple << source, topic, n >>.                                       *)
(***************************************************************************)
FeedFails == [raised |-> TRUE, items |-> << >>]
FeedGives(items) == [raised |-> FALSE, items |-> items]

\* _get_trending_from_twitter, lines 177-185: a fixed list, no request made
TwitterTopics ==
    << "ai-advancements", "climate-action", "tech-innovation",
       "global-economy", "space-exploration" >>

\* _get_fallback_trending_topics, lines 272-283
get_fallback_trending_topics(limit) ==
    Take(<< "ai-breakthrough", "climate-solutions", "tech-innovation", "global-events",
            "space-news", "health-advances", "economic-trends", "sports-highlights" >>,
         limit)

\* _get_fallback_trending_articles, lines 285-297
get_fallback_trending_articles(topics, limit) ==
    [i \in 1..Len(Take(topics, limit)) |->
        TrendArticle(<< "trending", topics[i], i >>, "fallback-abs", "fallback")]

\* the handler every feed reader ends with (lines 139-141, 168-170, 227-229
\* and 268-270): the error is logged and [] is returned
ReaderExcept(e) == [raised |-> FALSE, items |-> << >>]

\* _get_trending_from_newsapi and _get_trending_from_reddit: one topic for
\* each of the first limit items
TopicReader(outcome, limit) ==
    IF outcome.raised THEN ReaderExcept("RequestException")
    ELSE [raised |-> FALSE, items |-> Take(outcome.items, limit)]

\* the articles a reader builds from the items found, one id per position
FeedArticles(source, hits) ==
    [i \in 1..Len(hits) |-> TrendArticle(<< source, hits[i], i - 1 >>, "feed-abs", source)]

\* _get_articles_from_newsapi and _get_articles_from_reddit: no request is
\* made when topics[:limit] is empty
ArticleReader(source, outcome, topics, limit) ==
    IF Take(topics, limit) = << >> THEN [raised |-> FALSE, items |-> << >>]
    ELSE IF outcome.raised THEN ReaderExcept("RequestException")
    ELSE [raised |-> FALSE, items |-> Take(FeedArticles(source, outcome.items), limit)]

\* the keyed reader is not called when no NEWS_API_KEY is configured
Unkeyed == [raised |-> FALSE, items |-> << >>]

\* FromKeys that removes nothing
FromKeysKeepsAll(items, seen) == items

\* list(dict.fromkeys(items)), line 54: first occurrences, in order
RECURSIVE FromKeys(_, _)
FromKeys(items, seen) ==
    IF items = << >> THEN << >>
    ELSE IF Head(items) \in seen THEN FromKeys(Tail(items), seen)
    ELSE << Head(items) >> \o FromKeys(Tail(items), seen \cup {Head(items)})

\* get_trending_topics, lines 27-62; the handler of lines 59-62 is entered
\* when something in the body raises
get_trending_topics(limit, has_key, news, reddit) ==
    LET news_topics == IF has_key THEN TopicReader(news, limit) ELSE Unkeyed
        reddit_topics == TopicReader(reddit, limit)
        twitter_topics == Take(TwitterTopics, limit)
    IN IF news_topics.raised \/ reddit_topics.raised
       THEN get_fallback_trending_topics(limit)
       ELSE Take(FromKeys(news_topics.items \o reddit_topics.items \o twitter_topics, {}),
                 limit)

\* get_trending_articles, lines 64-104, with the two readers it calls
get_trending_articles_call(topics, limit, has_key, news, reddit) ==
    LET news_articles == IF has_key THEN ArticleReader("newsapi", news, topics, limit)
                         ELSE Unkeyed
        reddit_articles == ArticleReader("reddit", reddit, topics, limit)
    IN IF news_articles.raised \/ reddit_articles.raised
       THEN get_fallback_trending_articles(topics, limit)
       ELSE get_trending_articles(news_articles.items, reddit_articles.items, limit)

(***************************************************************************)
(* The text the chat endpoint returns, as the JSON it parses to.  A value  *)
(* at a key is a string, a number or null; an entry is an object or not.   *)
(* A score is a number of hundred-thousandths: ScoreScale stands for 1.0.  *)
(***************************************************************************)
ScoreScale == 100000

JStr(s) == [k |-> "str", s |-> s, n |-> 0]
JNum(n) == [k |-> "num", s |-> "", n |-> n]
JNull == [k |-> "null", s |-> "", n |-> 0]

\* Python truthiness of a JSON value
Truthy(v) ==
    CASE v.k = "str" -> v.s # ""
      [] v.k = "num" -> v.n # 0
      [] OTHER -> FALSE

\* an entry of the reply's tags or articles list: name is the value at the
\* key "tag" (resp. "id"); score_ok says whether float(score) succeeds
RawEntry(name, score, wildcard) ==
    [is_dict |-> TRUE, has_name |-> TRUE, name |-> name,
     has_score |-> TRUE, score_ok |-> TRUE, score |-> score, wildcard |-> wildcard]

NonNumeric(e) == [e EXCEPT !.score_ok = FALSE]
WithoutScore(e) == [e EXCEPT !.has_score = FALSE]
WithoutName(e) == [e EXCEPT !.has_name = FALSE]

\* a list element that is no object (a string, a number, null, a list)
NotAnObject ==
    [is_dict |-> FALSE, has_name |-> FALSE, name |-> JNull,
     has_score |-> FALSE, score_ok |-> FALSE, score |-> 0, wildcard |-> FALSE]

\* what the text holds: prose that is no JSON, an object cut off before its
\* closing braces, a JSON array, a JSON scalar, or a JSON object
Garbage ==
    [kind |-> "prose", json_ok |-> FALSE, is_object |-> FALSE,
     tags |-> << >>, articles |-> << >>]
Truncated(tags, articles) ==
    [kind |-> "truncated", json_ok |-> FALSE, is_object |-> FALSE,
     tags |-> tags, articles |-> articles]
JsonArray(items) ==
    [kind |-> "array", json_ok |-> TRUE, is_object |-> FALSE,
     tags |-> items, articles |-> items]
JsonScalar ==
    [kind |-> "scalar", json_ok |-> TRUE, is_object |-> FALSE,
     tags |-> << >>, articles |-> << >>]
JsonObject(tags, articles) ==
    [kind |-> "object", json_ok |-> TRUE, is_object |-> TRUE,
     tags |-> tags, articles |-> articles]

\* a reply text: what it holds, and whether it opens with ```json or with a
\* bare ``` and whether it ends with ```
ReplyText(fence_open, fence_close, body) ==
    [fence_open |-> fence_open, fence_close |-> fence_close, body |-> body]
PlainText(body) == ReplyText("none", FALSE, body)
FencedText(body) == ReplyText("json", TRUE, body)

EmptyOutput == [tags |-> << >>, articles |-> << >>]

\* Clamp without the lower limit
ClampFromAbove(lo, hi, x) == Min(hi, x)

\* max(lo, min(hi, score))
Clamp(lo, hi, x) == Max(lo, Min(hi, x))

\* round(x, 4): to the nearest ten-thousandth, a tie to the even one
Round4(x) ==
    LET r == x % 10
        down == x - r
    IN IF r < 5 THEN down
       ELSE IF r > 5 THEN down + 10
       ELSE IF (down \div 10) % 2 = 0 THEN down ELSE down + 10

\* lines 253-257: a leading ```json and a trailing ``` are cut off
StripFences(text) ==
    [text EXCEPT !.fence_open = IF @ = "json" THEN "none" ELSE @,
                 !.fence_close = FALSE]

\* line 258: json.loads raises unless the whole text is JSON
json_loads(text) ==
    IF text.fence_open = "none" /\ ~text.fence_close
    THEN text.body
    ELSE [text.body EXCEPT !.json_ok = FALSE, !.is_object = FALSE]

(***************************************************************************)
(* AzureOpenAIHelper._parse_llm_only_output.                               *)
(***************************************************************************)
\* KeepsEntry with the score not converted: any object with both keys is kept
KeepsEntryWithAnyScore(e) == e.is_dict /\ e.has_name /\ e.has_score

\* lines 262-266 and 274-278: the entry is an object with the name key and
\* the score key, and float() of the score does not raise
KeepsEntry(e) == e.is_dict /\ e.has_name /\ e.has_score /\ e.score_ok

RECURSIVE ParseTags(_)
ParseTags(raw) ==
    IF raw = << >> THEN << >>
    ELSE LET t == Head(raw) IN
         IF KeepsEntry(t)
         THEN << [tag |-> t.name, score |-> Clamp(1 * ScoreScale, 5 * ScoreScale, t.score),
                  wildcard |-> t.wildcard] >> \o ParseTags(Tail(raw))
         ELSE ParseTags(Tail(raw))

RECURSIVE ParseArticles(_)
ParseArticles(raw) ==
    IF raw = << >> THEN << >>
    ELSE LET a == Head(raw) IN
         IF KeepsEntry(a)
         THEN << [id |-> a.name, score |-> Round4(Clamp(0, 5 * ScoreScale, a.score)),
                  wildcard |-> a.wildcard] >> \o ParseArticles(Tail(raw))
         ELSE ParseArticles(Tail(raw))

\* ParseExcept without the handler: the error leaves the function
ParseExceptReraises(e) == [raised |-> TRUE, out |-> EmptyOutput]

\* the handler of lines 287-289
ParseExcept(e) == [raised |-> FALSE, out |-> EmptyOutput]

\* the call: json.loads raises on text that is no JSON, data.get raises
\* AttributeError on a value that is no object
parse_llm_only_call(response) ==
    LET data == json_loads(StripFences(response)) IN
    IF ~data.json_ok THEN ParseExcept("JSONDecodeError")
    ELSE IF ~data.is_object THEN ParseExcept("AttributeError")
    ELSE [raised |-> FALSE,
          out |-> [tags |-> ParseTags(data.tags),
                   articles |-> ParseArticles(data.articles)]]

parse_llm_only_output(response) == parse_llm_only_call(response).out

(***************************************************************************)
(* RecommendationManager._process_llm_output.                              *)
(***************************************************************************)
TrendPrefixes == {"wildcard-", "trending-", "newsapi-", "reddit-"}

\* the prefix (one of TrendPrefixes, or "") each id string of the model starts with
PrefixOf(s) ==
    CASE s \in {"reddit-ai-0"} -> "reddit-"
      [] s \in {"newsapi-ai-0"} -> "newsapi-"
      [] s \in {"trending-x-1"} -> "trending-"
      [] OTHER -> ""

TrendingAbstract == "Real trending article based on current global events and user interests"

\* candidate_abstract_by_id.get(art_id, ""): the last candidate with the id wins
RECURSIVE CandidateAbstract(_, _, _)
CandidateAbstract(candidates, art_id, default) ==
    IF candidates = << >> THEN default
    ELSE CandidateAbstract(Tail(candidates), art_id,
            IF Head(candidates).id = art_id THEN Head(candidates).abstract ELSE default)

RECURSIVE EnrichArticles(_, _)
EnrichArticles(all_articles, candidates) ==
    IF all_articles = << >> THEN << >>
    ELSE LET a == Head(all_articles)
             rest == EnrichArticles(Tail(all_articles), candidates)
         IN IF ~Truthy(a.id) THEN rest
            ELSE << [id |-> a.id.s, score |-> a.score,
                     abstract |-> IF PrefixOf(a.id.s) \in TrendPrefixes
                                  THEN TrendingAbstract
                                  ELSE CandidateAbstract(candidates, a.id.s, "")] >> \o rest

\* art_id.startswith raises AttributeError for a truthy id that is no string;
\* a tag name that is no string makes nothing raise
StartswithRaises(all_articles) ==
    \E i \in 1..Len(all_articles) :
        Truthy(all_articles[i].id) /\ all_articles[i].id.k # "str"

\* process_llm_output without the [:20] of lines 207 and 223
process_llm_output_uncut(llm_out, candidates) ==
    IF StartswithRaises(llm_out.articles) THEN EmptyOutput
    ELSE [tags |-> [i \in 1..Len(llm_out.tags) |->
                      [tag |-> llm_out.tags[i].tag, score |-> llm_out.tags[i].score]],
          articles |-> EnrichArticles(llm_out.articles, candidates)]

process_llm_output(llm_out, candidates) ==
    LET all_tags == Take(llm_out.tags, MaxStoredEntries)
        all_articles == Take(llm_out.articles, MaxStoredEntries)
    IN IF StartswithRaises(all_articles) THEN EmptyOutput
       ELSE [tags |-> [i \in 1..Len(all_tags) |->
                         [tag |-> all_tags[i].tag, score |-> all_tags[i].score]],
             articles |-> EnrichArticles(all_articles, candidates)]

(***************************************************************************)
(* TagAnalyzer.  Scores are numbers of hundred-thousandths, as everywhere: *)
(* ScoreScale stands for 1.0.                                              *)
(***************************************************************************)
\* round(x, digits) of the fraction num / den (den > 0), unit being the
\* weight of the last kept digit: the nearest multiple of unit.  No tie
\* arises for the fractions of this model.
RoundTo(num, den, unit) ==
    unit * ((2 * num * ScoreScale + den * unit) \div (2 * den * unit))

RECURSIVE TagOccurrences(_, _)
\* how often tag occurs in the list tags
TagOccurrences(tags, tag) ==
    IF tags = << >> THEN 0
    ELSE (IF Head(tags) = tag THEN 1 ELSE 0) + TagOccurrences(Tail(tags), tag)

RECURSIVE CounterOf(_, _, _)
\* the Counter of lines 71-86 at tag: the occurrences of tag in the
\* articles whose id is in ids and not in taken_by
CounterOf(user_articles, ids, taken_by) ==
    IF user_articles = << >> THEN [tag \in {} |-> 0]
    ELSE LET a == Head(user_articles)
             rest == CounterOf(Tail(user_articles), ids, taken_by)
             counted == IF a.id \in ids /\ a.id \notin taken_by THEN a.tags ELSE << >>
         IN [tag \in DOMAIN rest \cup Range(counted) |->
                (IF tag \in DOMAIN rest THEN rest[tag] ELSE 0) + TagOccurrences(counted, tag)]

\* Counter[tag]: 0 for a tag the Counter does not hold
CountAt(counter, tag) == IF tag \in DOMAIN counter THEN counter[tag] ELSE 0

MaxOf(S) == CHOOSE x \in S : \A y \in S : y <= x
MinOf(S) == CHOOSE x \in S : \A y \in S : x <= y

\* _extract_tag_preferences, lines 65-109: the tag_scores map
extract_tag_preferences(user_data, user_articles) ==
    LET liked_articles == Range(user_data.liked_articles)
        bookmarked_articles == Range(user_data.bookmarked_articles)
        disliked_articles == Range(user_data.disliked_articles)
        liked_tags == CounterOf(user_articles, liked_articles, {})
        bookmarked_tags == CounterOf(user_articles, bookmarked_articles, liked_articles)
        disliked_tags == CounterOf(user_articles, disliked_articles,
                                   liked_articles \cup bookmarked_articles)
        all_tags == DOMAIN liked_tags \cup DOMAIN bookmarked_tags \cup DOMAIN disliked_tags
        score(tag) == CountAt(liked_tags, tag) * 3 + CountAt(bookmarked_tags, tag) * 2
                          - CountAt(disliked_tags, tag) * 2
        scored == {tag \in all_tags : score(tag) > 0}
        values == {score(tag) : tag \in scored}
    IN IF scored # {} /\ MaxOf(values) > MinOf(values)
       THEN LET max_score == MaxOf(values)
                min_score == MinOf(values)
            IN [tag \in scored |->
                   RoundTo((max_score - min_score) + (score(tag) - min_score) * 4,
                           max_score - min_score, ScoreScale \div 100)]
       ELSE [tag \in scored |-> score(tag) * ScoreScale]

\* _calculate_diversity_score, lines 255-269
calculate_diversity_score(user_data) ==
    LET liked == Range(user_data.liked_articles)
        bookmarked == Range(user_data.bookmarked_articles)
        disliked == Range(user_data.disliked_articles)
        total_unique == Cardinality(liked \cup bookmarked \cup disliked)
        overlap == Cardinality(liked \cap bookmarked) + Cardinality(liked \cap disliked)
                       + Cardinality(bookmarked \cap disliked)
    IN IF total_unique = 0 THEN 0
       ELSE RoundTo(total_unique - overlap, total_unique, ScoreScale \div 1000)

(***************************************************************************)
(* Result records of generate_recommendations_for_user.  keys is the set   *)
(* of keys of the returned dict; a field whose key is absent holds a       *)
(* default.                                                                *)
(***************************************************************************)
BlankResult ==
    [keys |-> {}, success |-> FALSE, user_id |-> "", error |-> "", skipped |-> FALSE,
     reason |-> "", existing_recommendations |-> << >>, tags_recommendation |-> << >>,
     articles_recommendation |-> << >>, timestamp |-> 0]

FailedResult(uid, error) ==
    [BlankResult EXCEPT !.keys = {"success", "error", "user_id"},
                        !.user_id = uid, !.error = error]

SkippedResult(uid, existing) ==
    [BlankResult EXCEPT !.keys = {"success", "skipped", "reason", "user_id",
                                  "existing_recommendations"},
                        !.success = TRUE, !.skipped = TRUE,
                        !.reason = "Recommendations are recent",
                        !.user_id = uid, !.existing_recommendations = existing]

SuccessResult(uid, tags, articles, timestamp) ==
    [BlankResult EXCEPT !.keys = {"success", "user_id", "tags_recommendation",
                                  "articles_recommendation", "timestamp"},
                        !.success = TRUE, !.user_id = uid,
                        !.tags_recommendation = tags,
                        !.articles_recommendation = articles,
                        !.timestamp = timestamp]

ErrNotFound == "User not found"
ErrNoArticles == "No articles found for user"
ErrWrite == "Failed to update user recommendations in database"
ErrStore == "store error"

(***************************************************************************)
(* State.                                                                  *)
(***************************************************************************)
VARIABLES
    users,          \* the users container: user id -> document
    now,            \* the clock, in hours
    user_ids,       \* generate_recommendations_batch: the id list
    force_update,   \* ... and its force_update argument
    idx,            \* position of the batch loop in user_ids
    tally,          \* the batch counters successful / failed / skipped
    results,        \* the batch's results list
    pc,             \* where the engine is
    user_id,        \* generate_recommendations_for_user: its locals
    user_data,
    user_articles,
    id_articles_for_recommendation,
    candidates,
    trending_articles,
    attempt,        \* _call_chat_completion: attempts made so far
    slept,          \* ... and the seconds slept between them
    llm_out,
    recommendations,
    wdoc,           \* update_user_recommendations: the document it read
    result,         \* the record the run returns
    obs,            \* what happened during the current run
    sk,             \* a single should_skip_update call (SkipSpec)
    article_cache,  \* CosmosHelper._article_cache: article id -> entry
    clock,          \* time.time(), in seconds
    call            \* a single call of a gateway or parser operation

batchVars == << user_ids, force_update, idx, tally, results >>
localVars == << user_data, user_articles, id_articles_for_recommendation, candidates,
                trending_articles, attempt, slept, llm_out, recommendations, wdoc >>
vars == << users, now, user_ids, force_update, idx, tally, results, pc, user_id,
           user_data, user_articles, id_articles_for_recommendation, candidates,
           trending_articles, attempt, slept, llm_out, recommendations, wdoc,
           result, obs, sk, article_cache, clock, call >>

NoDoc == UserDoc(<< >>, << >>, << >>, NoStamp)

\* recommendation_manager.py lines 147-153: the counters of a batch that
\* starts on the list ids
BatchStart(ids) ==
    [total_users |-> Len(ids), successful |-> 0, failed |-> 0, skipped |-> 0]

\* nothing has happened yet in a run that starts with the store as it is
FreshObs(store) ==
    [users0 |-> store,            \* the users container when the run started
     lookup_raised |-> FALSE,     \* Step 1's read raised
     not_found |-> FALSE,         \* Step 1's read found no document
     fetched_none |-> FALSE,      \* Step 3 came back with no article
     llm_called |-> FALSE,        \* the chat endpoint was called
     llm_raised |-> FALSE,        \* _call_chat_completion raised
     update_users |-> store,      \* the users container when the update was called
     update_read |-> "none",      \* the update's read: ok, raise or missing
     update_replace |-> "none",   \* the update's replace_item: ok or raise
     update_returned |-> "none",  \* what update_user_recommendations returned
     steps |-> << >>]             \* the steps of the run that were started, in order

\* the run starts one of its steps
Stepped(o, step) == [o EXCEPT !.steps = Append(@, step)]

SkIdle == [stamp |-> NoStamp, hours_threshold |-> 0, utcnow |-> 0,
           returned |-> FALSE, done |-> FALSE]

NoCall == [op |-> "none"]

\* no gateway or parser operation is being observed on its own
GatewayIdle ==
    /\ article_cache = NoCache
    /\ clock = 0
    /\ call = NoCall

\* the id lists given to generate_recommendations_batch: every list of up to
\* MaxBatch ids, and every list that names each user once
BatchInputs == UNION {[1..n -> UserIds] : n \in 1..MaxBatch} \cup Orderings(UserIds)

InitialStores ==
    {[u \in {"u1", "u2"} |->
        IF u = "u1" THEN UserDoc(<< "A", "B" >>, << "B" >>, << >>, s1)
                    ELSE UserDoc(l2, << >>, << >>, NoStamp)] :
        s1 \in {NoStamp, NaiveStamp(1)}, l2 \in {<< >>, << "C" >>}}

LocalsBlank ==
    /\ user_data = NoDoc
    /\ user_articles = << >>
    /\ id_articles_for_recommendation = << >>
    /\ candidates = << >>
    /\ trending_articles = << >>
    /\ attempt = 0
    /\ slept = 0
    /\ llm_out = EmptyOutput
    /\ recommendations = EmptyOutput
    /\ wdoc = NoDoc

Init ==
    /\ users \in InitialStores
    /\ now = hours_threshold_default
    /\ user_ids \in BatchInputs
    /\ force_update \in BOOLEAN
    /\ idx = 1
    /\ tally = BatchStart(user_ids)
    /\ results = << >>
    /\ pc = "loop"
    /\ user_id = ""
    /\ LocalsBlank
    /\ result = BlankResult
    /\ obs = FreshObs(users)
    /\ sk = SkIdle
    /\ GatewayIdle

(***************************************************************************)
(* The replies the chat endpoint gives in this model: text that is no      *)
(* JSON, an object with empty lists, and objects whose article ids are a   *)
(* candidate's, an id no article has, a trend feed's, or a number.         *)
(***************************************************************************)
TagA == RawEntry(JStr("t1"), 3 * ScoreScale, FALSE)
TagB == RawEntry(JStr("t2"), 9 * ScoreScale, TRUE)
ArtCandidate == RawEntry(JStr("C"), 4 * ScoreScale, FALSE)
ArtUnknown == RawEntry(JStr("ghost"), 2 * ScoreScale, FALSE)
ArtTrending == RawEntry(JStr("reddit-ai-0"), 7 * ScoreScale, TRUE)
ArtNumericId == RawEntry(JNum(7), 3 * ScoreScale, FALSE)

Replies ==
    { PlainText(Garbage),
      FencedText(JsonObject(<< TagA, TagB >>, << ArtUnknown, ArtCandidate >>)),
      PlainText(JsonObject(<< NonNumeric(TagA), TagB >>,
                           << ArtTrending, WithoutScore(ArtCandidate) >>)),
      PlainText(JsonObject(<< TagA >>, << ArtCandidate, ArtNumericId >>)) }

(***************************************************************************)
(* CosmosHelper.get_user_by_id: the point read raises (any error but       *)
(* not-found is re-raised), finds nothing (None), or returns the document. *)
(***************************************************************************)
get_user_by_id(store, uid, outcome) ==
    IF outcome = "raise" THEN [raised |-> TRUE, found |-> FALSE, user |-> NoDoc]
    ELSE IF uid \notin DOMAIN store THEN [raised |-> FALSE, found |-> FALSE, user |-> NoDoc]
    ELSE [raised |-> FALSE, found |-> TRUE, user |-> store[uid]]

(***************************************************************************)
(* generate_recommendations_for_user, one step per external call.          *)
(***************************************************************************)
Return(r) ==
    /\ result' = r
    /\ pc' = "run_done"

\* Catch without the handler: the error leaves the call
CatchPropagates(e) ==
    /\ pc' = "uncaught"
    /\ result' = result

\* the handler of lines 123-129
Catch(e) == Return(FailedResult(user_id, e))

\* AfterUpdate without the test of line 107
AfterUpdateIgnoresFailure(success) ==
    Return(SuccessResult(user_id, recommendations.tags, recommendations.articles, now))

\* lines 107-121: what the run returns once update_user_recommendations returned
AfterUpdate(success) ==
    IF success
    THEN Return(SuccessResult(user_id, recommendations.tags, recommendations.articles, now))
    ELSE Return(FailedResult(user_id, ErrWrite))

\* NoArticles with the test of line 71 dropped
NoArticlesNever(articles) == FALSE

\* line 71
NoArticles(articles) == articles = << >>

\* SkipDecision without the force_update test
SkipDecisionIgnoresForce(force, user) ==
    should_skip_update(user, hours_threshold_default, now)

\* line 59
SkipDecision(force, user) ==
    ~force /\ should_skip_update(user, hours_threshold_default, now)

\* the batch loop calls generate_recommendations_for_user for the next id
StartRun ==
    /\ pc = "loop"
    /\ idx <= Len(user_ids)
    /\ user_id' = user_ids[idx]
    /\ obs' = FreshObs(users)
    /\ pc' = "fetch_user"
    /\ UNCHANGED << users, now, batchVars, localVars, result, sk, article_cache, clock, call >>

\* Step 1, lines 50-56
FetchUser ==
    /\ pc = "fetch_user"
    /\ \E outcome \in {"ok", "raise"} :
        LET r == get_user_by_id(users, user_id, outcome) IN
        IF r.raised
        THEN /\ Catch(ErrStore)
             /\ obs' = Stepped([obs EXCEPT !.lookup_raised = TRUE], "user_fetch")
             /\ user_data' = user_data
        ELSE IF ~r.found
        THEN /\ Return(FailedResult(user_id, ErrNotFound))
             /\ obs' = Stepped([obs EXCEPT !.not_found = TRUE], "user_fetch")
             /\ user_data' = user_data
        ELSE /\ user_data' = r.user
             /\ pc' = "check_skip"
             /\ obs' = Stepped(obs, "user_fetch")
             /\ result' = result
    /\ UNCHANGED << users, now, batchVars, user_id, user_articles,
                    id_articles_for_recommendation, candidates, trending_articles,
                    attempt, slept, llm_out, recommendations, wdoc, sk, article_cache, clock, call >>

\* Step 2, lines 59-67
CheckSkip ==
    /\ pc = "check_skip"
    /\ obs' = obs
    /\ IF SkipDecision(force_update, user_data)
       THEN Return(SkippedResult(user_id, user_data.tags_recommendation))
       ELSE /\ pc' = "get_articles"
            /\ result' = result
    /\ UNCHANGED << users, now, batchVars, user_id, localVars, sk, article_cache, clock, call >>

\* Step 3, lines 70-77
GetUserArticles ==
    /\ pc = "get_articles"
    /\ \E all_article_ids \in Orderings(InteractedIds(user_data)),
          query \in {"ok", "raise"}, batch \in {"ok", "raise"},
          readable \in SUBSET InteractedIds(user_data) :
        LET articles == get_user_articles_with_interactions(
                            user_data, all_article_ids, query, batch, readable) IN
        /\ user_articles' = articles
        /\ obs' = Stepped([obs EXCEPT !.fetched_none = (articles = << >>)],
                           "articles_fetch")
        /\ IF NoArticles(articles)
           THEN Return(FailedResult(user_id, ErrNoArticles))
           ELSE /\ pc' = "candidates"
                /\ result' = result
    /\ UNCHANGED << users, now, batchVars, user_id, user_data,
                    id_articles_for_recommendation, candidates, trending_articles,
                    attempt, slept, llm_out, recommendations, wdoc, sk, article_cache, clock, call >>

\* AfterCandidates with Step 7 taken before Step 5
AfterCandidatesWritesFirst(pool) == "write_read"

\* lines 84-87: Step 5 follows Step 4, whatever the pool holds
AfterCandidates(pool) == "trending"

\* Step 4, lines 80-84
BuildCandidates ==
    /\ pc = "candidates"
    /\ \E ids \in prepare_user_article_ids(user_data, prepare_limit_default),
          filtered \in {"ok", "raise"}, unfiltered \in {"ok", "raise"} :
        LET pool == get_candidate_articles(ids, CandidateLimit, filtered, unfiltered) IN
        /\ id_articles_for_recommendation' = ids
        /\ candidates' = pool
        /\ pc' = AfterCandidates(pool)
    /\ obs' = Stepped(obs, "candidates_fetch")
    /\ UNCHANGED << users, now, batchVars, user_id, user_data, user_articles,
                    trending_articles, attempt, slept, llm_out, recommendations,
                    wdoc, result, sk, article_cache, clock, call >>

\* Step 5, generate_llm_only_recommendations lines 157-158: the trend pool
FetchTrending ==
    /\ pc = "trending"
    /\ \E news \in NewsFeedOutcomes, reddit \in RedditFeedOutcomes :
        trending_articles' = get_trending_articles(news, reddit, ArticleWildcard)
    /\ pc' = "llm_call"
    /\ obs' = Stepped(obs, "llm")
    /\ UNCHANGED << users, now, batchVars, user_id, user_data, user_articles,
                    id_articles_for_recommendation, candidates, attempt, slept,
                    llm_out, recommendations, wdoc, result, sk, article_cache, clock, call >>

\* 2 ** attempt
RECURSIVE Pow2(_)
Pow2(n) == IF n = 0 THEN 1 ELSE 2 * Pow2(n - 1)

\* Backoff that starts at two seconds
BackoffFromTwo(attempt_no) == Pow2(attempt_no + 1)

\* line 421: time.sleep(2 ** attempt), attempt counted from 0
Backoff(attempt_no) == Pow2(attempt_no)

\* one pass of the loop of lines 388-424, attempt_no counted from 0: the
\* content is returned, or the error is caught and the loop sleeps and goes
\* on, or, on the last attempt, the error is raised again
chat_attempt(attempt_no, ok) ==
    IF ok THEN [next |-> "return", sleep |-> 0]
    ELSE IF attempt_no < max_retries - 1
    THEN [next |-> "retry", sleep |-> Backoff(attempt_no)]
    ELSE [next |-> "raise", sleep |-> 0]

\* one attempt of _call_chat_completion (lines 388-424); attempt and slept
\* are its locals and are gone when it returns or raises.  When the last
\* attempt fails the error is raised into generate_llm_only_recommendations,
\* whose handler (lines 196-198) returns the empty output
LlmAttempt ==
    /\ pc = "llm_call"
    /\ \E ok \in BOOLEAN, reply \in Replies :
        LET r == chat_attempt(attempt, ok) IN
        IF r.next = "return"
        THEN /\ llm_out' = parse_llm_only_output(reply)
             /\ pc' = "process"
             /\ attempt' = 0
             /\ slept' = 0
             /\ obs' = [obs EXCEPT !.llm_called = TRUE]
        ELSE IF r.next = "retry"
        THEN /\ slept' = slept + r.sleep
             /\ attempt' = attempt + 1
             /\ pc' = "llm_call"
             /\ obs' = [obs EXCEPT !.llm_called = TRUE]
             /\ llm_out' = llm_out
        ELSE /\ llm_out' = EmptyOutput
             /\ obs' = [obs EXCEPT !.llm_called = TRUE, !.llm_raised = TRUE]
             /\ pc' = "process"
             /\ attempt' = 0
             /\ slept' = 0
    /\ UNCHANGED << users, now, batchVars, user_id, user_data, user_articles,
                    id_articles_for_recommendation, candidates, trending_articles,
                    recommendations, wdoc, result, sk, article_cache, clock, call >>

\* AfterProcess that ends the run when there is nothing to store
AfterProcessStopsOnEmpty(recs) ==
    IF recs = EmptyOutput THEN "run_done" ELSE "write_read"

\* lines 97-105: Step 7 follows Step 6, whatever the lists hold
AfterProcess(recs) == "write_read"

\* Step 6, line 97
ProcessOutput ==
    /\ pc = "process"
    /\ recommendations' = process_llm_output(llm_out, candidates)
    /\ pc' = AfterProcess(process_llm_output(llm_out, candidates))
    /\ obs' = Stepped(obs, "validate")
    /\ UNCHANGED << users, now, batchVars, user_id, user_data, user_articles,
                    id_articles_for_recommendation, candidates, trending_articles,
                    attempt, slept, llm_out, wdoc, result, sk, article_cache, clock, call >>

(***************************************************************************)
(* Step 7: CosmosHelper.update_user_recommendations (reached through       *)
(* UserManager.update_user_recommendations), in its two store calls: the   *)
(* read of the user and the replace of the document.                       *)
(***************************************************************************)
\* UpdatedDoc that leaves the stored article recommendations as they were
UpdatedDocKeepsArticles(user, tags, articles, ids, utcnow) ==
    [user EXCEPT !.tags_recommendation = tags,
                 !.id_articles_for_recommendation = ids,
                 !.recommendations_updated_at = NaiveStamp(utcnow),
                 !.time_stamp_recommend = utcnow]

\* UpdatedDoc that builds a new document instead of updating the one read
UpdatedDocForgetsInteractions(user, tags, articles, ids, utcnow) ==
    [UserDoc(<< >>, << >>, << >>, NaiveStamp(utcnow)) EXCEPT
        !.tags_recommendation = tags,
        !.articles_recommendation = articles,
        !.id_articles_for_recommendation = ids,
        !.time_stamp_recommend = utcnow]

\* UpdatedDoc that stamps the document with a UTC offset
UpdatedDocStampsAware(user, tags, articles, ids, utcnow) ==
    [user EXCEPT !.tags_recommendation = tags,
                 !.articles_recommendation = articles,
                 !.id_articles_for_recommendation = ids,
                 !.recommendations_updated_at = AwareStamp(utcnow),
                 !.time_stamp_recommend = utcnow]

\* lines 292-296: the document handed to replace_item
UpdatedDoc(user, tags, articles, ids, utcnow) ==
    [user EXCEPT !.tags_recommendation = tags,
                 !.articles_recommendation = articles,
                 !.id_articles_for_recommendation = ids,
                 !.recommendations_updated_at = NaiveStamp(utcnow),
                 !.time_stamp_recommend = utcnow]

\* lines 285-288 and the handler of lines 303-305
WriteRead ==
    /\ pc = "write_read"
    /\ \E outcome \in {"ok", "raise"} :
        LET r == get_user_by_id(users, user_id, outcome) IN
        IF r.raised \/ ~r.found
        THEN /\ obs' = Stepped([obs EXCEPT !.update_users = users,
                                   !.update_read = IF r.raised THEN "raise" ELSE "missing",
                                   !.update_returned = "false"], "write")
             /\ AfterUpdate(FALSE)
             /\ wdoc' = wdoc
        ELSE /\ wdoc' = r.user
             /\ obs' = Stepped([obs EXCEPT !.update_users = users, !.update_read = "ok"],
                                "write")
             /\ pc' = "write_replace"
             /\ result' = result
    /\ UNCHANGED << users, now, batchVars, user_id, user_data, user_articles,
                    id_articles_for_recommendation, candidates, trending_articles,
                    attempt, slept, llm_out, recommendations, sk, article_cache, clock, call >>

\* UpdateReturns with the handler returning True
UpdateReturnsAlwaysTrue(replace) == TRUE

\* lines 299-305: True after replace_item, False from the handler when it raised
UpdateReturns(replace) == replace = "ok"

\* lines 290-305; wdoc is the update's local and is gone when it returns
WriteReplace ==
    /\ pc = "write_replace"
    /\ \E outcome \in {"ok", "raise"} :
        /\ users' = IF outcome = "ok"
                    THEN [users EXCEPT ![user_id] =
                            UpdatedDoc(wdoc, recommendations.tags, recommendations.articles,
                                       id_articles_for_recommendation, now)]
                    ELSE users
        /\ obs' = [obs EXCEPT !.update_replace = outcome,
                              !.update_returned =
                                  IF UpdateReturns(outcome) THEN "true" ELSE "false"]
        /\ wdoc' = NoDoc
        /\ AfterUpdate(UpdateReturns(outcome))
    /\ UNCHANGED << now, batchVars, user_id, user_data, user_articles,
                    id_articles_for_recommendation, candidates, trending_articles,
                    attempt, slept, llm_out, recommendations, sk, article_cache, clock, call >>

(***************************************************************************)
(* generate_recommendations_batch.                                         *)
(***************************************************************************)
\* Counted that counts a skipped run as nothing
CountedForgetsSkipped(t, r) ==
    IF r.success
    THEN IF r.skipped THEN t ELSE [t EXCEPT !.successful = @ + 1]
    ELSE [t EXCEPT !.failed = @ + 1]

\* lines 161-167
Counted(t, r) ==
    IF r.success
    THEN IF r.skipped THEN [t EXCEPT !.skipped = @ + 1]
                      ELSE [t EXCEPT !.successful = @ + 1]
    ELSE [t EXCEPT !.failed = @ + 1]

\* LoopAfter that leaves the loop at the first failed user
LoopAfterStopsOnFailure(r) == IF r.success THEN "loop" ELSE "returned"

\* lines 156-176: whatever the run returned, the loop goes on to the next id
LoopAfter(r) == "loop"

\* lines 158-167: the run has returned; the loop records it and moves on
BatchAccumulate ==
    /\ pc = "run_done"
    /\ results' = Append(results, result)
    /\ tally' = Counted(tally, result)
    /\ idx' = idx + 1
    /\ pc' = LoopAfter(result)
    /\ user_id' = ""
    /\ user_data' = NoDoc
    /\ user_articles' = << >>
    /\ id_articles_for_recommendation' = << >>
    /\ candidates' = << >>
    /\ trending_articles' = << >>
    /\ attempt' = 0
    /\ slept' = 0
    /\ llm_out' = EmptyOutput
    /\ recommendations' = EmptyOutput
    /\ wdoc' = NoDoc
    /\ result' = BlankResult
    /\ obs' = FreshObs(users)
    /\ UNCHANGED << users, now, user_ids, force_update, sk, article_cache, clock, call >>

\* line 181
BatchReturn ==
    /\ pc = "loop"
    /\ idx > Len(user_ids)
    /\ pc' = "returned"
    /\ UNCHANGED << users, now, batchVars, user_id, localVars, result, obs, sk, article_cache, clock, call >>

\* an hour passes before the batch is started
Tick ==
    /\ pc = "loop"
    /\ idx = 1
    /\ now < MaxClock
    /\ now' = now + 1
    /\ UNCHANGED << users, batchVars, pc, user_id, localVars, result, obs, sk, article_cache, clock, call >>

Next ==
    \/ StartRun
    \/ FetchUser
    \/ CheckSkip
    \/ GetUserArticles
    \/ BuildCandidates
    \/ FetchTrending
    \/ LlmAttempt
    \/ ProcessOutput
    \/ WriteRead
    \/ WriteReplace
    \/ BatchAccumulate
    \/ BatchReturn
    \/ Tick

Spec == Init /\ [][Next]_vars

(***************************************************************************)
(* SkipSpec: single calls of should_skip_update(user_data, hours_threshold)*)
(* at a clock reading utcnow, for every stored timestamp, threshold and    *)
(* clock reading of the sets below.  The engine is idle meanwhile.         *)
(***************************************************************************)
SkipStamps ==
    {NoStamp} \cup {NaiveStamp(t) : t \in 0..MaxSkipTime}
              \cup {AwareStamp(t) : t \in 0..MaxSkipTime}
SkipThresholds == {1, 2, hours_threshold_default}
SkipClock == (0..MaxSkipTime) \cup {hours_threshold_default + d : d \in 0..MaxSkipTime}

SkipInit ==
    /\ users \in InitialStores
    /\ now = hours_threshold_default
    /\ user_ids = << >>
    /\ force_update = FALSE
    /\ idx = 1
    /\ tally = BatchStart(user_ids)
    /\ results = << >>
    /\ pc = "off"
    /\ user_id = ""
    /\ LocalsBlank
    /\ result = BlankResult
    /\ obs = FreshObs(users)
    /\ sk \in [stamp : SkipStamps, hours_threshold : SkipThresholds,
               utcnow : SkipClock, returned : {FALSE}, done : {FALSE}]
    /\ GatewayIdle

SkipCall ==
    /\ ~sk.done
    /\ sk' = [sk EXCEPT
                !.returned = should_skip_update(
                                [NoDoc EXCEPT !.recommendations_updated_at = sk.stamp],
                                sk.hours_threshold, sk.utcnow),
                !.done = TRUE]
    /\ UNCHANGED << users, now, batchVars, pc, user_id, localVars, result, obs,
                    article_cache, clock, call >>

SkipNext == SkipCall

SkipSpec == SkipInit /\ [][SkipNext]_vars

(***************************************************************************)
(* UpdateSpec: single calls of update_user_recommendations(user_id, tags,  *)
(* articles, ids), for users that exist and for one that does not.         *)
(***************************************************************************)
UpdateInputs == {process_llm_output(parse_llm_only_output(r), << >>) : r \in Replies}

UpdateEntered ==
    /\ users \in InitialStores
    /\ now = hours_threshold_default
    /\ user_ids = << >>
    /\ force_update = FALSE
    /\ idx = 1
    /\ tally = BatchStart(user_ids)
    /\ results = << >>
    /\ pc = "write_read"
    /\ user_id \in UserIds
    /\ user_data = NoDoc
    /\ user_articles = << >>
    /\ id_articles_for_recommendation \in {<< >>, << "A" >>}
    /\ candidates = << >>
    /\ trending_articles = << >>
    /\ attempt = 0
    /\ slept = 0
    /\ llm_out = EmptyOutput
    /\ recommendations \in UpdateInputs
    /\ wdoc = NoDoc
    /\ result = BlankResult
    /\ obs = FreshObs(users)
    /\ sk = SkIdle

UpdateInit == UpdateEntered /\ GatewayIdle

UpdateNext == WriteRead \/ WriteReplace

UpdateSpec == UpdateInit /\ [][UpdateNext]_vars

(***************************************************************************)
(* WriterSpec: update_user_recommendations while another writer (the       *)
(* application recording a like, a bookmark or a dislike) replaces the     *)
(* same user document.  call.writes lists what the other writer added.     *)
(***************************************************************************)
WriterInit ==
    /\ UpdateEntered
    /\ article_cache = NoCache
    /\ clock = 0
    /\ call = [op |-> "external_writer", writes |-> << >>]

\* the list of a user document that records interactions of the given kind
WithInteraction(doc, kind, id) ==
    CASE kind = "liked" -> [doc EXCEPT !.liked_articles = Append(@, id)]
      [] kind = "bookmarked" -> [doc EXCEPT !.bookmarked_articles = Append(@, id)]
      [] OTHER -> [doc EXCEPT !.disliked_articles = Append(@, id)]

\* the other writer adds article D to one of the user's lists, before the
\* update's read or between the read and the replace
ExternalWrite ==
    /\ call.op = "external_writer"
    /\ pc \in {"write_read", "write_replace"}
    /\ Len(call.writes) < MaxExternalWrites
    /\ user_id \in DOMAIN users
    /\ \E kind \in {"liked", "bookmarked", "disliked"} :
        /\ users' = [users EXCEPT ![user_id] = WithInteraction(@, kind, "D")]
        /\ call' = [call EXCEPT !.writes = Append(@, [kind |-> kind, id |-> "D", at |-> pc])]
    /\ UNCHANGED << now, batchVars, pc, user_id, localVars, result, obs, sk,
                    article_cache, clock >>

WriterNext == WriteRead \/ WriteReplace \/ ExternalWrite

WriterSpec == WriterInit /\ [][WriterNext]_vars

(***************************************************************************)
(* RepeatSpec: a batch of two runs with hours passing between the first    *)
(* run and the second, for the same user twice or for two users.           *)
(***************************************************************************)
RepeatInit ==
    /\ Init
    /\ Len(user_ids) = 2
    /\ \A i \in 1..2 : user_ids[i] \in {"u1", "u2"}

\* the second run starts one hour less than the threshold, or the whole
\* threshold, after the first
HoursPass ==
    /\ pc = "loop"
    /\ idx = 2
    /\ now <= MaxClock
    /\ \E d \in {hours_threshold_default - 1, hours_threshold_default} : now' = now + d
    /\ UNCHANGED << users, batchVars, pc, user_id, localVars, result, obs, sk,
                    article_cache, clock, call >>

RepeatNext == Next \/ HoursPass

RepeatSpec == RepeatInit /\ [][RepeatNext]_vars

(***************************************************************************)
(* The orchestrator is not running: the state of a specification that      *)
(* exercises single operations.                                            *)
(***************************************************************************)
NoUsers == [u \in {} |-> NoDoc]

EngineOff ==
    /\ users = NoUsers
    /\ now = hours_threshold_default
    /\ user_ids = << >>
    /\ force_update = FALSE
    /\ idx = 1
    /\ tally = BatchStart(user_ids)
    /\ results = << >>
    /\ pc = "off"
    /\ user_id = ""
    /\ LocalsBlank
    /\ result = BlankResult
    /\ obs = FreshObs(users)
    /\ sk = SkIdle

engineVars == << users, now, batchVars, pc, user_id, localVars, result, obs, sk >>

(***************************************************************************)
(* CandidateSpec: Step 4 on its own.  The exclusion list is either what    *)
(* prepare_user_article_ids(user_data, limit) returns or a list the caller *)
(* gives; get_candidate_articles(exclude_ids, limit) then runs against an  *)
(* articles container with published articles, one with none (the          *)
(* unfiltered query runs), or an empty one.                                *)
(***************************************************************************)
PublishedStore ==
    << Article("A", "abs-A", TRUE, "published"),
       NullAbstract(NullTags(Article("B", "", TRUE, "published"))),
       WithoutAbstract(WithoutTags(Article("C", "", TRUE, "published"))),
       Article("D", "abs-D", FALSE, "draft") >>

UnpublishedStore ==
    << Article("A", "abs-A", FALSE, "published"),
       WithoutAbstract(Article("B", "", TRUE, "draft")),
       NullTags(Article("C", "abs-C", TRUE, "draft")) >>

CandidateStores == {PublishedStore, UnpublishedStore, << >>}

CandidateUsers ==
    {UserDoc(liked, bookmarked, disliked, NoStamp) :
        liked \in {<< >>, << "A" >>, << "A", "B" >>, << "A", "B", "C" >>},
        bookmarked \in {<< >>, << "B" >>},
        disliked \in {<< >>, << "D" >>}}

PrepareLimits == {1, 2, prepare_limit_default}
QueryLimits == {0, 1, CandidateLimit}

CandidateInit ==
    /\ EngineOff
    /\ article_cache = NoCache
    /\ clock = 0
    /\ call \in [op : {"get_candidate_articles"}, store : CandidateStores,
                 user : CandidateUsers, prepare_limit : PrepareLimits,
                 limit : QueryLimits, via : {"none"}, exclude_ids : {<< >>},
                 returned : {<< >>}, done : {FALSE}, filtered : {"none"},
                 fallback_issued : {FALSE}]

\* line 80: the exclusion list is built from the user's interactions
PrepareExclusion ==
    /\ call.via = "none"
    /\ \E ids \in prepare_user_article_ids(call.user, call.prepare_limit) :
        call' = [call EXCEPT !.via = "prepare", !.exclude_ids = ids]
    /\ UNCHANGED << engineVars, article_cache, clock >>

\* the caller passes an exclusion list of its own
GivenExclusion ==
    /\ call.via = "none"
    /\ \E S \in SUBSET ArticleIds : \E ids \in Orderings(S) :
        call' = [call EXCEPT !.via = "given", !.exclude_ids = ids]
    /\ UNCHANGED << engineVars, article_cache, clock >>

\* lines 81-84
CandidateQuery ==
    /\ call.via # "none"
    /\ ~call.done
    /\ \E filtered \in {"ok", "raise"}, unfiltered \in {"ok", "raise"} :
        LET r == get_candidate_articles_call(
                     call.store, call.exclude_ids, call.limit, filtered, unfiltered) IN
        call' = [call EXCEPT !.returned = r.returned,
                             !.fallback_issued = r.fallback_issued,
                             !.filtered = filtered,
                             !.done = TRUE]
    /\ UNCHANGED << engineVars, article_cache, clock >>

CandidateNext == PrepareExclusion \/ GivenExclusion \/ CandidateQuery

CandidateSpec == CandidateInit /\ [][CandidateNext]_vars

(***************************************************************************)
(* FetchSpec: get_articles_by_ids(article_ids) on one id list, once with   *)
(* the batched query answering and once with the batched query raising,    *)
(* so that the per-id fallback runs.  "Z" is an id no article has.         *)
(***************************************************************************)
RequestIds == {"A", "B", "Z"}
Requests == UNION {[1..n -> RequestIds] : n \in 0..MaxRequest}

FetchInit ==
    /\ EngineOff
    /\ article_cache = NoCache
    /\ clock = 0
    /\ call \in [op : {"get_articles_by_ids"}, article_ids : Requests,
                 batched : {<< >>}, batched_done : {FALSE},
                 fallback : {<< >>}, fallback_done : {FALSE}, readable : {{}}]

\* lines 79-94: the batched query answers
FetchBatched ==
    /\ ~call.batched_done
    /\ call' = [call EXCEPT !.batched = get_articles_by_ids(call.article_ids, "ok", {}),
                            !.batched_done = TRUE]
    /\ UNCHANGED << engineVars, article_cache, clock >>

\* lines 96-99 and 111-124: the batched query raises; each point read of
\* the fallback answers for the ids in readable and raises for the others
FetchFallback ==
    /\ ~call.fallback_done
    /\ \E readable \in {ArticleIds, {"A"}, {}} :
        call' = [call EXCEPT
                    !.fallback = get_articles_by_ids(call.article_ids, "raise", readable),
                    !.fallback_done = TRUE,
                    !.readable = readable]
    /\ UNCHANGED << engineVars, article_cache, clock >>

FetchNext == FetchBatched \/ FetchFallback

FetchSpec == FetchInit /\ [][FetchNext]_vars

(***************************************************************************)
(* CacheSpec: a sequence of get_articles_by_ids_optimized calls on one     *)
(* CosmosHelper, with time passing between the calls.  call holds what the *)
(* last call was given, found and did; call.n counts the steps taken.      *)
(***************************************************************************)
CacheRequests == UNION {[1..n -> RequestIds] : n \in 1..2}

\* the seconds that pass between two calls
ClockSteps == {1, cache_ttl - 1, cache_ttl}

CacheInit ==
    /\ EngineOff
    /\ article_cache = NoCache
    /\ clock = 0
    /\ call = [op |-> "get_articles_by_ids_optimized", n |-> 0, done |-> FALSE,
               article_ids |-> << >>, time |-> 0, cache_before |-> NoCache,
               query |-> "none", batch |-> "none", readable |-> {},
               returned |-> << >>, asked |-> {}, fell_back |-> FALSE]

\* lines 160-206
CachedFetch ==
    /\ call.n < MaxCacheOps
    /\ \E article_ids \in CacheRequests, query \in {"ok", "raise"},
          batch \in {"ok", "raise"}, readable \in {ArticleIds, {}} :
        LET r == get_articles_by_ids_cached(article_ids, article_cache, clock,
                                            query, batch, readable)
        IN /\ article_cache' = r.cache
           /\ call' = [call EXCEPT !.n = @ + 1, !.done = TRUE,
                                   !.article_ids = article_ids, !.time = clock,
                                   !.cache_before = article_cache,
                                   !.query = IF r.asked = {} THEN "none" ELSE query,
                                   !.batch = IF r.fell_back THEN batch ELSE "none",
                                   !.readable = IF r.fell_back THEN readable ELSE {},
                                   !.returned = r.returned, !.asked = r.asked,
                                   !.fell_back = r.fell_back]
    /\ UNCHANGED << engineVars, clock >>

\* time.time() moves on
ClockAdvance ==
    /\ call.n < MaxCacheOps
    /\ \E d \in ClockSteps : clock' = clock + d
    /\ call' = [call EXCEPT !.n = @ + 1]
    /\ UNCHANGED << engineVars, article_cache >>

CacheNext == CachedFetch \/ ClockAdvance

CacheSpec == CacheInit /\ [][CacheNext]_vars

(***************************************************************************)
(* AnnotateSpec: get_user_articles_with_interactions called for one user   *)
(* after another, all calls sharing the gateway's article cache, with      *)
(* time passing between calls.  The users interacted with the same         *)
(* articles in different ways.                                             *)
(***************************************************************************)
AnnotateUsers ==
    {UserDoc(<< "A", "B" >>, << "B" >>, << >>, NoStamp),
     UserDoc(<< >>, << "A" >>, << "A", "B" >>, NoStamp),
     UserDoc(<< "C" >>, << "C" >>, << "C", "A" >>, NoStamp)}

AnnotateInit ==
    /\ EngineOff
    /\ article_cache = NoCache
    /\ clock = 0
    /\ call = [op |-> "get_user_articles_with_interactions", n |-> 0, done |-> FALSE,
               user |-> NoDoc, time |-> 0, cache_before |-> NoCache,
               returned |-> << >>, fell_back |-> FALSE]

\* user_manager.py lines 66-116
AnnotatedFetch ==
    /\ call.op = "get_user_articles_with_interactions"
    /\ call.n < MaxCacheOps
    /\ \E user \in AnnotateUsers, query \in {"ok", "raise"},
          batch \in {"ok", "raise"}, readable \in {ArticleIds, {}} :
        \E all_article_ids \in Orderings(InteractedIds(user)) :
        LET r == get_user_articles_with_interactions_cached(
                     user, all_article_ids, article_cache, clock, query, batch, readable)
        IN /\ article_cache' = r.cache
           /\ call' = [call EXCEPT !.n = @ + 1, !.done = TRUE, !.user = user,
                                   !.time = clock, !.cache_before = article_cache,
                                   !.returned = r.returned, !.fell_back = r.fell_back]
    /\ UNCHANGED << engineVars, clock >>

AnnotateNext == AnnotatedFetch \/ ClockAdvance

AnnotateSpec == AnnotateInit /\ [][AnnotateNext]_vars

(***************************************************************************)
(* ShareSpec: two runs of generate_recommendations_for_user on one engine, *)
(* for two users who interacted with the same articles, interleaved        *)
(* between Step 2 (get_user_articles_with_interactions) and Step 5 (the    *)
(* call of generate_llm_only_recommendations with user_articles).  The     *)
(* runs share the gateway's article cache; no cache entry expires while    *)
(* they run.  A run's user_articles holds the dicts the gateway returned:  *)
(* the cache entries' own dicts (shared), or new dicts when the gateway    *)
(* fell back to get_articles_by_ids.                                       *)
(***************************************************************************)
SharingRun(user) ==
    [user |-> user, pc |-> "articles_fetch", user_articles |-> << >>,
     shared |-> FALSE, handed |-> << >>]

ShareInit ==
    /\ EngineOff
    /\ article_cache = NoCache
    /\ clock = 0
    /\ \E u1 \in AnnotateUsers : \E u2 \in AnnotateUsers \ {u1} :
        call = [op |-> "concurrent_runs", runs |-> << SharingRun(u1), SharingRun(u2) >>]

\* what the dicts of a run's user_articles hold now: a dict that is a cache
\* entry's dict holds what the last annotation of that entry left
HeldNow(run, cache) ==
    [i \in 1..Len(run.user_articles) |->
        IF run.shared /\ run.user_articles[i].id \in DOMAIN cache
        THEN cache[run.user_articles[i].id].article
        ELSE run.user_articles[i]]

\* recommendation_manager.py line 70 in one of the runs
RunFetchesArticles ==
    /\ call.op = "concurrent_runs"
    /\ \E r \in 1..2, query \in {"ok", "raise"}, batch \in {"ok", "raise"},
          readable \in {ArticleIds, {}} :
        /\ call.runs[r].pc = "articles_fetch"
        /\ \E all_article_ids \in Orderings(InteractedIds(call.runs[r].user)) :
            LET got == get_user_articles_with_interactions_cached(
                           call.runs[r].user, all_article_ids, article_cache, clock,
                           query, batch, readable)
            IN /\ article_cache' = got.cache
               /\ call' = [call EXCEPT !.runs[r].pc = "llm",
                                       !.runs[r].user_articles = got.returned,
                                       !.runs[r].shared = ~got.fell_back]
    /\ UNCHANGED << engineVars, clock >>

\* recommendation_manager.py lines 86-93 in one of the runs: user_articles
\* is handed to generate_llm_only_recommendations
RunHandsArticles ==
    /\ call.op = "concurrent_runs"
    /\ \E r \in 1..2 :
        /\ call.runs[r].pc = "llm"
        /\ call' = [call EXCEPT !.runs[r].pc = "done",
                                !.runs[r].handed = HeldNow(call.runs[r], article_cache)]
    /\ UNCHANGED << engineVars, clock, article_cache >>

ShareNext == RunFetchesArticles \/ RunHandsArticles

ShareSpec == ShareInit /\ [][ShareNext]_vars

(***************************************************************************)
(* AnalyzerSpec: _extract_tag_preferences and _calculate_diversity_score   *)
(* called on a user whose three lists are any lists of the tagged          *)
(* articles, with the articles the user interacted with.                   *)
(***************************************************************************)
TaggedArticle(id, tags) == [id |-> id, tags |-> tags]

AnalyzerArticles ==
    << TaggedArticle("A", << "ai", "ml" >>), TaggedArticle("B", << "ai" >>),
       TaggedArticle("C", << "ai", "ml" >>) >>

AnalyzerLists == {CHOOSE l \in Orderings(S) : TRUE : S \in SUBSET {"A", "B", "C"}}

AnalyzerInit ==
    /\ EngineOff
    /\ article_cache = NoCache
    /\ clock = 0
    /\ \E liked \in AnalyzerLists, bookmarked \in AnalyzerLists, disliked \in AnalyzerLists :
        call = [op |-> "TagAnalyzer", extracted |-> FALSE, calculated |-> FALSE,
                user |-> UserDoc(liked, bookmarked, disliked, NoStamp),
                user_articles |-> << >>,
                tag_scores |-> [tag \in {} |-> 0], diversity |-> 0]

\* tag_analyzer.py line 40, on the articles the user interacted with
ExtractTagPreferences ==
    /\ call.op = "TagAnalyzer"
    /\ ~call.extracted
    /\ LET interacted == Filter(AnalyzerArticles, InteractedIds(call.user)) IN
        call' = [call EXCEPT !.extracted = TRUE, !.user_articles = interacted,
                             !.tag_scores = extract_tag_preferences(call.user, interacted)]
    /\ UNCHANGED << engineVars, article_cache, clock >>

\* tag_analyzer.py line 146
CalculateDiversity ==
    /\ call.op = "TagAnalyzer"
    /\ ~call.calculated
    /\ call' = [call EXCEPT !.calculated = TRUE,
                            !.diversity = calculate_diversity_score(call.user)]
    /\ UNCHANGED << engineVars, article_cache, clock >>

AnalyzerNext == ExtractTagPreferences \/ CalculateDiversity

AnalyzerSpec == AnalyzerInit /\ [][AnalyzerNext]_vars

(***************************************************************************)
(* TrendSpec: get_trending_topics(limit) followed by                       *)
(* get_trending_articles(topics, article_limit) on the topics it returned, *)
(* as generate_llm_only_recommendations calls them.  Each feed fails or    *)
(* gives items; the social feed's topics repeat each other and topics of   *)
(* the fixed list.                                                         *)
(***************************************************************************)
TrendLimits == {0, 1, 2, Len(TwitterTopics)}

SampleTopics ==
    {<< >>, << "r1" >>, << "r1", "r1" >>, << "r1", "r2", "r3" >>,
     << "r2", "ai-advancements", "r2" >>, << "climate-action", "r1" >>}

TopicFeedOutcomes == {FeedFails} \cup {FeedGives(t) : t \in SampleTopics}

\* the keyed feed answers one article for a topic, the social feed any
\* number of posts
NewsHits(topics) ==
    {<< >>} \cup (IF topics = << >> THEN {} ELSE {<< topics[1] >>})
            \cup (IF Len(topics) < 2 THEN {} ELSE {<< topics[1], topics[2] >>})
RedditHits(topics) ==
    {<< >>} \cup (IF topics = << >> THEN {}
                  ELSE {<< topics[1] >>, << topics[1], topics[1] >>,
                        << topics[1], topics[Len(topics)] >>})

TrendInit ==
    /\ EngineOff
    /\ article_cache = NoCache
    /\ clock = 0
    /\ call \in [op : {"trending"}, stage : {"given"}, has_key : BOOLEAN,
                 limit : TrendLimits, news_topics : TopicFeedOutcomes,
                 reddit_topics : TopicFeedOutcomes, topics : {<< >>},
                 article_limit : {0}, news_articles : {FeedFails},
                 reddit_articles : {FeedFails}, articles : {<< >>}]

\* azure_openai_helper.py line 157
TrendingTopics ==
    /\ call.op = "trending"
    /\ call.stage = "given"
    /\ call' = [call EXCEPT
            !.stage = "topics",
            !.topics = get_trending_topics(call.limit, call.has_key,
                                           call.news_topics, call.reddit_topics)]
    /\ UNCHANGED << engineVars, article_cache, clock >>

\* azure_openai_helper.py line 158
TrendingArticles ==
    /\ call.op = "trending"
    /\ call.stage = "topics"
    /\ \E article_limit \in TrendLimits,
          news \in {FeedFails} \cup {FeedGives(h) : h \in NewsHits(call.topics)},
          reddit \in {FeedFails} \cup {FeedGives(h) : h \in RedditHits(call.topics)} :
        call' = [call EXCEPT
            !.stage = "articles",
            !.article_limit = article_limit,
            !.news_articles = news,
            !.reddit_articles = reddit,
            !.articles = get_trending_articles_call(call.topics, article_limit,
                                                    call.has_key, news, reddit)]
    /\ UNCHANGED << engineVars, article_cache, clock >>

TrendNext == TrendingTopics \/ TrendingArticles

TrendSpec == TrendInit /\ [][TrendNext]_vars

(***************************************************************************)
(* ParseSpec: _parse_llm_only_output on one reply text, followed by        *)
(* _process_llm_output on what it returned.  The texts are prose, a cut    *)
(* off object, an array, a scalar and objects whose entries have scores    *)
(* below, inside and above the ranges, each with and without code fences.  *)
(***************************************************************************)
ScoreSamples ==
    {0 - ScoreScale, 0, ScoreScale \div 2, 120003, 314159,
     5 * ScoreScale, 5 * ScoreScale + 1, 9 * ScoreScale}

SampleTags ==
    {<< >>, << NonNumeric(TagA), TagB >>, << WithoutScore(TagA) >>,
     << TagA, NotAnObject, TagB >>,
     << WithoutName(TagB), TagB, NonNumeric(TagB), TagA >>}
        \cup {<< RawEntry(JStr("t1"), sc, FALSE) >> : sc \in ScoreSamples}

SampleArticles ==
    {<< >>, << NonNumeric(ArtCandidate), ArtTrending >>, << WithoutScore(ArtCandidate) >>,
     << ArtCandidate, ArtNumericId >>,
     << ArtUnknown, NotAnObject, WithoutName(ArtCandidate), ArtCandidate >>}
        \cup {<< RawEntry(JStr("C"), sc, FALSE) >> : sc \in ScoreSamples}

\* names for the entries of a reply that holds more than MaxStoredEntries
ManyNames ==
    << "n01", "n02", "n03", "n04", "n05", "n06", "n07", "n08", "n09", "n10", "n11",
       "n12", "n13", "n14", "n15", "n16", "n17", "n18", "n19", "n20", "n21", "n22" >>

\* n valid entries, every fourth one flagged wildcard
ManyEntries(n) ==
    [i \in 1..n |-> RawEntry(JStr(ManyNames[i]), (1 + (i % 5)) * ScoreScale, (i % 4) = 0)]

\* an article entry whose id is the empty string
ArtEmptyId == RawEntry(JStr(""), 2 * ScoreScale, FALSE)

\* replies that hold more entries than a run stores
LongReplyBodies ==
    {JsonObject(ManyEntries(MaxStoredEntries + 2), ManyEntries(MaxStoredEntries + 1)),
     JsonObject(<< NonNumeric(TagA) >> \o ManyEntries(MaxStoredEntries + 1),
                << ArtEmptyId >> \o ManyEntries(MaxStoredEntries)),
     JsonObject(ManyEntries(MaxStoredEntries), ManyEntries(MaxStoredEntries) \o << ArtNumericId >>),
     JsonObject(ManyEntries(MaxStoredEntries + 1), << ArtNumericId >> \o ManyEntries(MaxStoredEntries))}

ReplyBodies ==
    {Garbage, JsonScalar, JsonArray(<< TagA >>), Truncated(<< TagA >>, << ArtCandidate >>)}
        \cup {JsonObject(t, a) : t \in SampleTags, a \in SampleArticles}
        \cup LongReplyBodies

ReplyTexts ==
    {ReplyText(o, c, b) : o \in {"none", "json", "bare"}, c \in BOOLEAN, b \in ReplyBodies}

ParseInit ==
    /\ EngineOff
    /\ article_cache = NoCache
    /\ clock = 0
    /\ call \in [op : {"_parse_llm_only_output"}, response : ReplyTexts,
                 stage : {"given"}, out : {EmptyOutput}, stored : {EmptyOutput}]

\* azure_openai_helper.py line 188
ParseCall ==
    /\ call.op = "_parse_llm_only_output"
    /\ call.stage = "given"
    /\ LET r == parse_llm_only_call(call.response) IN
        call' = [call EXCEPT !.stage = IF r.raised THEN "raised" ELSE "parsed",
                             !.out = r.out]
    /\ UNCHANGED << engineVars, article_cache, clock >>

\* recommendation_manager.py line 97, with no candidates
ProcessCall ==
    /\ call.op = "_parse_llm_only_output"
    /\ call.stage = "parsed"
    /\ call' = [call EXCEPT !.stage = "stored",
                            !.stored = process_llm_output(call.out, << >>)]
    /\ UNCHANGED << engineVars, article_cache, clock >>

ParseNext == ParseCall \/ ProcessCall

ParseSpec == ParseInit /\ [][ParseNext]_vars

(***************************************************************************)
(* RetrySpec: _call_chat_completion(prompt) on its own.  Each attempt      *)
(* either gets a reply text or fails with some error; tried is what each   *)
(* attempt so far ended with, waits the sleeps taken, in order, and clock  *)
(* the seconds slept.                                                      *)
(***************************************************************************)
ChatErrors == {"timeout", "rate-limit"}

RetryInit ==
    /\ EngineOff
    /\ article_cache = NoCache
    /\ clock = 0
    /\ call = [op |-> "_call_chat_completion", attempt |-> 0, tried |-> << >>,
               waits |-> << >>, status |-> "running", content |-> << >>,
               error |-> ""]

\* azure_openai_helper.py lines 388-424, one pass of the loop
ChatAttempt ==
    /\ call.op = "_call_chat_completion"
    /\ call.status = "running"
    /\ \E ok \in BOOLEAN, reply \in ReplyTexts, e \in ChatErrors :
        LET r == chat_attempt(call.attempt, ok) IN
        /\ call' = [call EXCEPT
                !.tried = Append(@, IF ok THEN "ok" ELSE e),
                !.attempt = IF r.next = "retry" THEN @ + 1 ELSE @,
                !.waits = IF r.next = "retry" THEN Append(@, r.sleep) ELSE @,
                !.status = CASE r.next = "return" -> "returned"
                             [] r.next = "retry" -> "running"
                             [] OTHER -> "raised",
                !.content = IF r.next = "return" THEN << reply >> ELSE @,
                !.error = IF r.next = "raise" THEN e ELSE @]
        /\ clock' = clock + r.sleep
    /\ UNCHANGED << engineVars, article_cache >>

RetryNext == ChatAttempt

RetrySpec == RetryInit /\ [][RetryNext]_vars

(***************************************************************************)
(* Properties.                                                             *)
(***************************************************************************)
RunReturned == pc = "run_done"

OfferedIds ==
    {candidates[i].id : i \in 1..Len(candidates)}
        \cup {trending_articles[i].id : i \in 1..Len(trending_articles)}

StoredArticleIds(uid) ==
    {users[uid].articles_recommendation[i].id :
        i \in 1..Len(users[uid].articles_recommendation)}

\* C1: when a run has written to the store, every id in the user's stored
\* articles_recommendation is the id of an article of that run's candidate
\* pool or of its trending-article list.
StoredIdsWereOffered ==
    (RunReturned /\ obs.update_replace = "ok")
        => StoredArticleIds(user_id) \subseteq OfferedIds

\* C2: when the chat call failed on all its attempts, the run returns
\* success = false with an error and the users container is as it was when
\* the run started.
LlmFailureFailsRun ==
    (RunReturned /\ obs.llm_raised)
        => /\ ~result.success
           /\ "error" \in result.keys
           /\ users = obs.users0

WellFormedResult(r) ==
    /\ {"success", "user_id"} \subseteq r.keys
    /\ ~r.success => ("error" \in r.keys /\ r.error # "")
    /\ r.success =>
        \/ r.skipped /\ {"skipped", "reason"} \subseteq r.keys /\ r.reason # ""
        \/ /\ ~r.skipped
           /\ {"tags_recommendation", "articles_recommendation", "timestamp"}
                  \subseteq r.keys

\* C3: generate_recommendations_for_user never lets an error out: a stage
\* that raises into it gives a record with success = false, the user id and
\* the error; every returned record has success and user_id, and a
\* success = true record is either skipped with a reason or carries both
\* recommendation lists and a timestamp.
RunNeverRaises ==
    /\ pc # "uncaught"
    /\ RunReturned =>
        /\ WellFormedResult(result)
        /\ result.user_id = user_id
        /\ obs.lookup_raised =>
            (~result.success /\ result.error = ErrStore /\ "error" \in result.keys)

RunCaughtALookupError ==
    RunReturned /\ obs.lookup_raised /\ ~result.success /\ result.user_id = user_id

CountOf(rs, Test(_)) == Cardinality({i \in 1..Len(rs) : Test(rs[i])})
IsFailed(r) == ~r.success
IsSkipped(r) == r.success /\ r.skipped
IsSuccessful(r) == r.success /\ ~r.skipped

\* C4: a user whose lookup raises is recorded as failed, changes nothing in
\* the store, and does not stop the batch: the loop goes through every id of
\* the list, in order, counts each result once, and returns.
BatchSurvivesLookupFailure ==
    /\ pc # "uncaught"
    /\ (RunReturned /\ obs.lookup_raised) => (IsFailed(result) /\ users = obs.users0)
    /\ pc \in {"loop", "returned"} =>
        /\ Len(results) = idx - 1
        /\ idx - 1 <= Len(user_ids)
        /\ \A i \in 1..Len(results) : results[i].user_id = user_ids[i]
        /\ tally.failed = CountOf(results, IsFailed)
        /\ tally.skipped = CountOf(results, IsSkipped)
        /\ tally.successful = CountOf(results, IsSuccessful)
    /\ pc = "returned" => Len(results) = Len(user_ids)

ThreeUsersSecondLookupRaised ==
    /\ pc = "returned"
    /\ Len(user_ids) = 3
    /\ results[2].error = ErrStore
    /\ tally = [total_users |-> 3, successful |-> 2, failed |-> 1, skipped |-> 0]

\* C5: a run that returns success = true and is not skipped has had the
\* update return true, and the two lists of its record are the lists stored
\* on the user's document.
SuccessMeansStored ==
    (RunReturned /\ result.success /\ ~result.skipped) =>
        /\ obs.update_returned = "true"
        /\ obs.update_replace = "ok"
        /\ user_id \in DOMAIN users
        /\ users[user_id].tags_recommendation = result.tags_recommendation
        /\ users[user_id].articles_recommendation = result.articles_recommendation

SuccessWithArticles ==
    /\ RunReturned /\ result.success /\ ~result.skipped
    /\ result.articles_recommendation # << >>
    /\ result.tags_recommendation # << >>

UserWasFound == ~obs.lookup_raised /\ ~obs.not_found

\* C6: for an existing user the run ends skipped iff force_update is false
\* and should_skip_update(user) is true; a forced run is never skipped.
SkippedIffRecentAndNotForced ==
    (RunReturned /\ UserWasFound) =>
        /\ IsSkipped(result) <=>
              (~force_update /\ should_skip_update(user_data, hours_threshold_default, now))
        /\ force_update => ~result.skipped

RecentRunSkipped ==
    RunReturned /\ UserWasFound /\ ~force_update /\ IsSkipped(result)

\* C7: should_skip_update returns true iff the user has a timestamp and now
\* minus the timestamp is strictly less than hours_threshold hours, for every
\* well-formed ISO timestamp, with or without a UTC designator.
SkipIffWithinThreshold ==
    sk.done =>
        (sk.returned <=>
            (sk.stamp.present /\ sk.utcnow - sk.stamp.t < sk.hours_threshold))

EndedEarly ==
    \/ IsSkipped(result)
    \/ obs.not_found
    \/ obs.fetched_none
    \/ (~result.success /\ result.error \in {ErrNotFound, ErrNoArticles})

\* C8: a run that ends skipped, with user not found or with no articles has
\* called neither the chat endpoint nor the update, and the users container
\* is as it was when the run started.
EarlyExitTouchesNothing ==
    (RunReturned /\ EndedEarly) =>
        /\ ~obs.llm_called
        /\ obs.update_read = "none"
        /\ obs.update_replace = "none"
        /\ users = obs.users0
        /\ obs.not_found => (~result.success /\ result.error = ErrNotFound)
        /\ obs.fetched_none => (~result.success /\ result.error = ErrNoArticles)

NoArticlesRun ==
    RunReturned /\ obs.fetched_none /\ result.error = ErrNoArticles /\ ~obs.llm_called

\* C9: when the update returns false the run returns success = false with
\* the write-error message.
WriteFailureFailsRun ==
    (RunReturned /\ obs.update_returned = "false") =>
        /\ ~result.success
        /\ "error" \in result.keys
        /\ result.error = ErrWrite

ReplaceFailedRun ==
    RunReturned /\ obs.update_replace = "raise" /\ obs.update_returned = "false"

\* C10: update_user_recommendations returns false when the user does not
\* exist, when reading the user raises or when the replace raises, leaving
\* the users container unchanged; it returns true only after the replace
\* succeeded; it always returns.
UpdateNeverRaises ==
    /\ pc \in {"write_read", "write_replace", "run_done"}
    /\ pc = "run_done" => obs.update_returned \in {"true", "false"}
    /\ (obs.update_read \in {"raise", "missing"} \/ obs.update_replace = "raise") =>
        (obs.update_returned = "false" /\ users = obs.update_users)
    /\ obs.update_returned = "true" =>
        (obs.update_read = "ok" /\ obs.update_replace = "ok")
    /\ obs.update_returned = "false" => users = obs.update_users

UpdateOfMissingUser ==
    /\ pc = "run_done"
    /\ user_id \notin DOMAIN users
    /\ obs.update_read = "missing"
    /\ obs.update_returned = "false"

\* C11: an update that returned true has set the five recommendation fields
\* of the user's document (the two lists, the id list, the ISO timestamp and
\* the epoch timestamp) and has written back liked_articles,
\* bookmarked_articles and disliked_articles as they were read.
UpdateChangesFiveFields ==
    obs.update_returned = "true" =>
        LET before == obs.update_users[user_id]
            after == users[user_id]
        IN /\ after.liked_articles = before.liked_articles
           /\ after.bookmarked_articles = before.bookmarked_articles
           /\ after.disliked_articles = before.disliked_articles
           /\ after.tags_recommendation = recommendations.tags
           /\ after.articles_recommendation = recommendations.articles
           /\ after.id_articles_for_recommendation = id_articles_for_recommendation
           /\ after.recommendations_updated_at = NaiveStamp(now)
           /\ after.time_stamp_recommend = now
           /\ \A u \in DOMAIN users \ {user_id} : users[u] = obs.update_users[u]

UpdateKeptInteractions ==
    /\ obs.update_returned = "true"
    /\ users[user_id].liked_articles # << >>
    /\ users[user_id].bookmarked_articles # << >>
    /\ users[user_id] # obs.update_users[user_id]

\* C12: no operation of the document-store gateway lets a store error out
\* to its caller; in a run, the user lookup of Step 1 never raises.
GatewayNeverPropagates ==
    /\ ~obs.lookup_raised
    /\ obs.update_read # "raise"

ReturnedIds == {call.returned[i].id : i \in 1..Len(call.returned)}

\* C13: no article returned by get_candidate_articles has an id of the
\* exclusion list it was given, whichever of the two queries supplied the
\* articles.
CandidatesExcludeGivenIds ==
    (call.op = "get_candidate_articles" /\ call.done) =>
        ReturnedIds \cap Range(call.exclude_ids) = {}

ExclusionRemovedAnArticle ==
    /\ call.op = "get_candidate_articles" /\ call.done
    /\ call.store = UnpublishedStore
    /\ call.returned # << >>
    /\ Range(call.exclude_ids) \cap {call.store[i].id : i \in 1..call.limit} # {}

\* C14: when the exclusion list is the one prepare_user_article_ids built,
\* the candidate pool holds no article the user liked, bookmarked or
\* disliked, however many articles the user interacted with.
CandidatesExcludeInteracted ==
    (call.op = "get_candidate_articles" /\ call.done /\ call.via = "prepare") =>
        ReturnedIds \cap InteractedIds(call.user) = {}

\* C18: every article get_candidate_articles returns has an abstract and a
\* tags value that are present and not null.
CandidatesHaveAbstractAndTags ==
    (call.op = "get_candidate_articles" /\ call.done) =>
        \A i \in 1..Len(call.returned) :
            /\ call.returned[i].has_abstract /\ ~call.returned[i].abstract_null
            /\ call.returned[i].has_tags /\ ~call.returned[i].tags_null

Occurrences(s, x) == Cardinality({i \in 1..Len(s) : s[i] = x})

\* C17: for the same id list, get_articles_by_ids returns the same articles
\* when the batched query answers and when it raises and the per-id fallback
\* reads them: each article appears as often in one result as in the other.
FallbackSameAsBatch ==
    (/\ call.op = "get_articles_by_ids"
     /\ call.batched_done /\ call.fallback_done
     /\ call.readable = ArticleIds) =>
        /\ Len(call.batched) = Len(call.fallback)
        /\ \A a \in Range(call.batched) \cup Range(call.fallback) :
              Occurrences(call.batched, a) = Occurrences(call.fallback, a)

LastFetch == call.op = "get_articles_by_ids_optimized" /\ call.done

\* the age the entry of id had when the last call looked it up
EntryAge(id) == call.time - call.cache_before[id].timestamp

FreshIds ==
    {id \in Range(call.article_ids) :
        id \in DOMAIN call.cache_before /\ EntryAge(id) < cache_ttl}
ExpiredIds ==
    {id \in Range(call.article_ids) :
        id \in DOMAIN call.cache_before /\ EntryAge(id) >= cache_ttl}
MissedIds == Range(call.article_ids) \ FreshIds

IdsOf(articles) == {articles[i].id : i \in 1..Len(articles)}

\* C15: in every call, an id whose entry is younger than cache_ttl seconds
\* is returned and is not asked from the store; an id whose entry is
\* cache_ttl seconds old or older is asked from the store, its old entry is
\* gone and, the article being in the store, its entry carries the time of
\* this call.
CacheAnswersWithinTtl ==
    LastFetch =>
        /\ \A id \in FreshIds : id \notin call.asked /\ id \in IdsOf(call.returned)
        /\ \A id \in ExpiredIds :
              /\ id \in call.asked
              /\ id \in DOMAIN article_cache =>
                    article_cache[id].timestamp # call.cache_before[id].timestamp
              /\ id \in ArticleIds =>
                    (id \in DOMAIN article_cache /\ article_cache[id].timestamp = call.time)

\* C16: on a partial hit (some ids fresh in the cache, some not) the store
\* is asked for exactly the ids that missed; the result is cached articles
\* followed by fetched ones, no id in both parts; every fetched article has
\* a cache entry afterwards; ids the store does not have are neither
\* returned nor cached.
PartialHitMerges ==
    (LastFetch /\ FreshIds # {} /\ MissedIds # {}) =>
        /\ call.asked = MissedIds
        /\ \E k \in 0..Len(call.returned) :
              /\ \A i \in 1..k : call.returned[i].id \in FreshIds
              /\ \A i \in (k + 1)..Len(call.returned) : call.returned[i].id \in MissedIds
        /\ \A id \in MissedIds \cap ArticleIds :
              /\ id \in IdsOf(call.returned)
              /\ id \in DOMAIN article_cache /\ article_cache[id].timestamp = call.time
        /\ \A id \in MissedIds \ ArticleIds :
              id \notin IdsOf(call.returned) /\ id \notin DOMAIN article_cache

Parsed == call.op = "_parse_llm_only_output" /\ call.stage \in {"parsed", "stored"}

\* C19: _parse_llm_only_output never raises, and for a text that holds no
\* JSON object (prose, an object cut off, an array, a scalar, fenced or not)
\* it returns {tags: [], articles: []}.
ParseNeverRaises ==
    call.op = "_parse_llm_only_output" =>
        /\ call.stage # "raised"
        /\ (Parsed /\ call.response.body.kind # "object") => call.out = EmptyOutput

ArrayReplyParsedEmpty ==
    /\ Parsed
    /\ call.response.body.kind = "array"
    /\ call.response.fence_open = "json"
    /\ call.out = EmptyOutput

\* an entry the parser keeps: an object with its name key and a score that
\* float() accepts
NumericEntry(e) == e.is_dict /\ e.has_name /\ e.has_score /\ e.score_ok

InTagRange(x) == 1 * ScoreScale <= x /\ x <= 5 * ScoreScale
InArticleRange(x) == 0 <= x /\ x <= 5 * ScoreScale

ScoresInRange(recs) ==
    /\ \A i \in 1..Len(recs.tags) : InTagRange(recs.tags[i].score)
    /\ \A i \in 1..Len(recs.articles) : InArticleRange(recs.articles[i].score)

\* C20, as claimed: every emitted tag score is in [1, 5] and every emitted
\* article score in [0, 5], each being the score of a numeric entry of the
\* reply clamped to the range; the scores handed on for storing are in the
\* ranges too.
ScoresAreClampedInput ==
    Parsed =>
        /\ ScoresInRange(call.out)
        /\ \A i \in 1..Len(call.out.tags) :
              \E j \in 1..Len(call.response.body.tags) :
                 /\ NumericEntry(call.response.body.tags[j])
                 /\ call.out.tags[i].score =
                        Max(1 * ScoreScale, Min(5 * ScoreScale, call.response.body.tags[j].score))
        /\ \A i \in 1..Len(call.out.articles) :
              \E j \in 1..Len(call.response.body.articles) :
                 /\ NumericEntry(call.response.body.articles[j])
                 /\ call.out.articles[i].score =
                        Max(0, Min(5 * ScoreScale, call.response.body.articles[j].score))
        /\ call.stage = "stored" => ScoresInRange(call.stored)

\* C20, amended: as above, except that an emitted article score is the
\* clamped score rounded to four decimals.
ScoresClampedThenRounded ==
    Parsed =>
        /\ ScoresInRange(call.out)
        /\ \A i \in 1..Len(call.out.tags) :
              \E j \in 1..Len(call.response.body.tags) :
                 /\ NumericEntry(call.response.body.tags[j])
                 /\ call.out.tags[i].score =
                        Max(1 * ScoreScale, Min(5 * ScoreScale, call.response.body.tags[j].score))
        /\ \A i \in 1..Len(call.out.articles) :
              \E j \in 1..Len(call.response.body.articles) :
                 /\ NumericEntry(call.response.body.articles[j])
                 /\ call.out.articles[i].score =
                        Round4(Max(0, Min(5 * ScoreScale, call.response.body.articles[j].score)))
        /\ call.stage = "stored" => ScoresInRange(call.stored)

OutOfRangeScoresStored ==
    /\ call.op = "_parse_llm_only_output" /\ call.stage = "stored"
    /\ \E j \in 1..Len(call.response.body.tags) :
          call.response.body.tags[j].score < 1 * ScoreScale
    /\ \E j \in 1..Len(call.response.body.articles) :
          call.response.body.articles[j].score > 5 * ScoreScale
    /\ call.stored.tags # << >>
    /\ call.stored.articles # << >>


StoredArticles(uid) == users[uid].articles_recommendation

\* C21: when a run has written to the store, the abstract of every stored
\* article recommendation was attached locally: an article whose id is a
\* candidate's has that candidate's abstract, and an article whose id is that
\* of an article of the run's trending-article list has that article's
\* abstract.
StoredAbstractsAreLocal ==
    (RunReturned /\ obs.update_replace = "ok") =>
        \A i \in 1..Len(StoredArticles(user_id)) :
            LET a == StoredArticles(user_id)[i] IN
            /\ \A j \in 1..Len(candidates) :
                   candidates[j].id = a.id => a.abstract = candidates[j].abstract
            /\ \A j \in 1..Len(trending_articles) :
                   trending_articles[j].id = a.id
                       => a.abstract = trending_articles[j].abstract


\* the external steps of a run, in the order of the code (Steps 1, 3, 4, 5, 6, 7)
StepOrder == << "user_fetch", "articles_fetch", "candidates_fetch", "llm", "validate", "write" >>

\* C26: within a run the external steps are started in the fixed order user
\* fetch, interacted-article fetch, candidate-pool fetch, LLM invocation,
\* validation of the reply, write-back, each at most once: the steps started
\* so far are always an initial part of that order.  The write-back is not
\* started, and the store is not changed, before the chat endpoint was called
\* and the LLM step is over.
StepsInFixedOrder ==
    /\ Len(obs.steps) <= Len(StepOrder)
    /\ obs.steps = Take(StepOrder, Len(obs.steps))
    /\ (pc \in {"write_read", "write_replace"} \/ obs.update_read # "none")
          => (obs.llm_called /\ Len(obs.steps) >= 5 /\ pc \notin {"trending", "llm_call"})
    /\ obs.llm_called \/ users = obs.users0

\* a run went through all six steps and wrote to the store
RunTookEveryStep ==
    RunReturned /\ obs.steps = StepOrder /\ obs.update_replace = "ok"


\* the attempts so far that failed
FailedAttempts == {i \in 1..Len(call.tried) : call.tried[i] # "ok"}

\* C27: _call_chat_completion makes at most three attempts.  It returns the
\* content of the first attempt that succeeds and attempts nothing further;
\* after failed attempt k < 3 it has waited 2^(k-1) seconds (1 s, then 2 s);
\* after a third failed attempt it raises that attempt's error with no
\* further wait and no fourth attempt.
ChatCompletionRetries ==
    call.op = "_call_chat_completion" =>
        /\ Len(call.tried) <= 3
        /\ call.status = "running" => Len(call.tried) < 3
        /\ \A i \in 1..Len(call.tried) : call.tried[i] = "ok" => i = Len(call.tried)
        /\ call.status = "returned"
              <=> (call.tried # << >> /\ call.tried[Len(call.tried)] = "ok")
        /\ call.status = "returned" => Len(call.content) = 1
        /\ call.status = "raised"
              <=> (Len(call.tried) = 3 /\ FailedAttempts = 1..3)
        /\ call.status = "raised" => call.error = call.tried[3]
        /\ call.waits = Take(<< 1, 2 >>, Cardinality(FailedAttempts \cap 1..2))
        /\ clock = IF call.waits = << >> THEN 0
                   ELSE IF Len(call.waits) = 1 THEN 1 ELSE 3
        /\ Len(call.content) = 1 => call.status = "returned"

\* the third attempt failed and its error was raised after waits of 1 s and 2 s
ThirdFailureRaised ==
    /\ call.op = "_call_chat_completion"
    /\ call.status = "raised"
    /\ call.waits = << 1, 2 >>
    /\ call.tried = << "timeout", "timeout", "rate-limit" >>
    /\ call.error = "rate-limit"


\* the reply is a JSON object, bare or between a ```json fence and a ``` fence
ObjectReply ==
    /\ call.op = "_parse_llm_only_output"
    /\ call.response.body.kind = "object"
    /\ call.response.fence_open # "bare"

\* the names (tag names or article ids) of the entries of a list, in order
NamesOf(raw) == [i \in 1..Len(raw) |-> raw[i].name]

\* an article entry the validation can store: numeric, with a non-empty string id
StorableArticle(e) == NumericEntry(e) /\ e.name.k = "str" /\ e.name.s # ""

\* C28: a malformed entry of an otherwise valid reply (a score that is no
\* number, a missing key, an article id that is no string) is discarded on
\* its own: every other valid tag and article entry of the reply is among
\* the recommendations handed on for storing.
MalformedEntryDroppedAlone ==
    (ObjectReply /\ call.stage = "stored") =>
        /\ [i \in 1..Len(call.stored.tags) |-> call.stored.tags[i].tag]
              = NamesOf(SelectSeq(call.response.body.tags, NumericEntry))
        /\ [i \in 1..Len(call.stored.articles) |-> JStr(call.stored.articles[i].id)]
              = NamesOf(SelectSeq(call.response.body.articles, StorableArticle))

\* C30: for a reply that is a JSON object, the parser keeps exactly the
\* entries that are objects with the name key (tag, resp. id) and a score
\* that converts to a number, in their order, and drops every other entry
\* without raising; the tags list and the articles list are filtered each
\* on its own.
ParserKeepsExactlyValidEntries ==
    (ObjectReply /\ call.stage # "given") =>
        /\ call.stage # "raised"
        /\ [i \in 1..Len(call.out.tags) |-> call.out.tags[i].tag]
              = NamesOf(SelectSeq(call.response.body.tags, NumericEntry))
        /\ [i \in 1..Len(call.out.articles) |-> call.out.articles[i].id]
              = NamesOf(SelectSeq(call.response.body.articles, NumericEntry))

\* two tags were kept in order around dropped entries while every entry of
\* the articles list was kept
TagsFilteredArticlesKept ==
    /\ ObjectReply
    /\ call.stage = "parsed"
    /\ call.response.body.tags = << WithoutName(TagB), TagB, NonNumeric(TagB), TagA >>
    /\ NamesOf(call.response.body.articles) = << JStr("C"), JNum(7) >>
    /\ Len(call.out.tags) = 2
    /\ call.out.tags[1].tag = JStr("t2")
    /\ call.out.tags[2].tag = JStr("t1")
    /\ Len(call.out.articles) = 2


\* the rows the active and published query of a finished call returned
FilteredRows == Take(SelectSeq(call.store, IsActivePublished), call.limit)

\* C29: get_candidate_articles issues the unfiltered query exactly when the
\* active and published query returned zero rows; when that query returned
\* rows that are all excluded, no second query is issued and the result is
\* empty; the result never has more than limit articles.
FallbackIffNoFilteredRows ==
    (call.op = "get_candidate_articles" /\ call.done) =>
        /\ call.fallback_issued <=> (call.filtered = "ok" /\ FilteredRows = << >>)
        /\ (/\ call.filtered = "ok"
            /\ FilteredRows # << >>
            /\ \A i \in 1..Len(FilteredRows) :
                   FilteredRows[i].id \in Range(call.exclude_ids))
              => (~call.fallback_issued /\ call.returned = << >>)
        /\ Len(call.returned) <= call.limit

\* the filtered query returned three rows, all of them excluded
EveryFilteredRowExcluded ==
    /\ call.op = "get_candidate_articles" /\ call.done
    /\ call.filtered = "ok"
    /\ Len(FilteredRows) = 3
    /\ \A i \in 1..Len(FilteredRows) : FilteredRows[i].id \in Range(call.exclude_ids)
    /\ ~call.fallback_issued
    /\ call.returned = << >>


\* the interaction lists of the user of the call that contain the id
ListsHolding(id) ==
    {t \in {"liked", "bookmarked", "disliked"} :
        id \in Range(CASE t = "liked" -> call.user.liked_articles
                       [] t = "bookmarked" -> call.user.bookmarked_articles
                       [] OTHER -> call.user.disliked_articles)}

\* the call returned an article from a valid cache entry that carried the
\* annotation of an earlier call
ServedAnnotated(a) ==
    /\ ~call.fell_back
    /\ a.id \in DOMAIN call.cache_before
    /\ call.time - call.cache_before[a.id].timestamp < cache_ttl
    /\ "interaction_types" \in DOMAIN call.cache_before[a.id].article

\* C25: every article get_user_articles_with_interactions returns for a user
\* carries as interaction_types exactly the lists among liked, bookmarked and
\* disliked of that user that contain its id, whatever calls for other users
\* went through the shared article cache before.
AnnotationsMatchUser ==
    (call.op = "get_user_articles_with_interactions" /\ call.done) =>
        \A i \in 1..Len(call.returned) :
            call.returned[i].interaction_types = ListsHolding(call.returned[i].id)

\* an article came from the cache with another user's annotation and was
\* returned with the two lists of this user that hold it
StaleAnnotationReplaced ==
    /\ call.op = "get_user_articles_with_interactions" /\ call.done
    /\ \E i \in 1..Len(call.returned) :
        LET a == call.returned[i] IN
        /\ ServedAnnotated(a)
        /\ call.cache_before[a.id].article.interaction_types # a.interaction_types
        /\ Cardinality(a.interaction_types) = 2


\* what a feed of the call gave the aggregator: nothing when the request
\* failed, else its first n items
Gave(outcome, n) == IF outcome.raised THEN << >> ELSE Take(outcome.items, n)

\* the feeds' topic lists, one after the other
TopicFeedResults ==
    (IF call.has_key THEN Gave(call.news_topics, call.limit) ELSE << >>)
        \o Gave(call.reddit_topics, call.limit)
        \o Take(TwitterTopics, call.limit)

\* the feeds' article lists, one after the other
ArticleFeedResults ==
    IF Take(call.topics, call.article_limit) = << >> THEN << >>
    ELSE (IF call.has_key
          THEN Take(FeedArticles("newsapi", Gave(call.news_articles, call.article_limit)),
                    call.article_limit)
          ELSE << >>)
         \o Take(FeedArticles("reddit", Gave(call.reddit_articles, call.article_limit)),
                 call.article_limit)

\* the position at which key x first occurs in keys
FirstAt(keys, x) == CHOOSE i \in 1..Len(keys) : keys[i] = x /\ \A j \in 1..(i - 1) : keys[j] # x

\* kept holds the first limit distinct keys of keys, in the order in which
\* they first occur, and no key twice
FirstDistinct(kept, keys, limit) ==
    /\ Len(kept) = Min(limit, Cardinality(Range(keys)))
    /\ Range(kept) \subseteq Range(keys)
    /\ \A i, j \in 1..Len(kept) : i < j => FirstAt(keys, kept[i]) < FirstAt(keys, kept[j])
    /\ \A x \in Range(keys) \ Range(kept) :
           \A i \in 1..Len(kept) : FirstAt(keys, kept[i]) < FirstAt(keys, x)

IdsIn(articles) == [i \in 1..Len(articles) |-> articles[i].id]

\* C22: get_trending_topics(limit) and get_trending_articles(topics, limit)
\* return the feeds' results one after the other with duplicates removed
\* (equal topic strings, equal article ids), each kept where it first
\* occurs, cut to at most limit entries: no topic and no article id is
\* returned twice.
TrendResultsFirstDistinct ==
    /\ (call.op = "trending" /\ call.stage # "given") =>
          FirstDistinct(call.topics, TopicFeedResults, call.limit)
    /\ (call.op = "trending" /\ call.stage = "articles") =>
          /\ FirstDistinct(IdsIn(call.articles), IdsIn(ArticleFeedResults),
                           call.article_limit)
          /\ \A i \in 1..Len(call.articles) :
                 call.articles[i]
                     = ArticleFeedResults[FirstAt(IdsIn(ArticleFeedResults),
                                                  call.articles[i].id)]

\* topics that repeated were returned once and cut to the limit, and the
\* articles of both feeds were returned
RepeatedTopicsReturnedOnce ==
    /\ call.op = "trending" /\ call.stage = "articles"
    /\ Len(TopicFeedResults) > Cardinality(Range(TopicFeedResults))
    /\ Cardinality(Range(TopicFeedResults)) > call.limit
    /\ call.limit = 2
    /\ Len(call.topics) = 2
    /\ call.has_key
    /\ Len(call.articles) = 2
    /\ call.articles[1].source = "newsapi"
    /\ call.articles[2].source = "reddit"

\* C23: when the keyed news feed throws and the social feed returns 3
\* topics, get_trending_topics(5) returns exactly those 3 topics,
\* deduplicated, and nothing of the static list.
SocialTopicsAloneReturned ==
    (/\ call.op = "trending" /\ call.stage # "given"
     /\ call.has_key /\ call.news_topics.raised
     /\ ~call.reddit_topics.raised /\ Len(call.reddit_topics.items) = 3
     /\ call.limit = 5)
        => FirstDistinct(call.topics, call.reddit_topics.items, call.limit)

\* C24: when every external feed fails, get_trending_topics(limit) returns a
\* non-empty topic list and get_trending_articles(topics, limit), for limit
\* >= 1 and non-empty topics, a non-empty article list.
TrendDataWhenFeedsFail ==
    (/\ call.op = "trending" /\ call.stage = "articles"
     /\ call.news_topics.raised /\ call.reddit_topics.raised
     /\ call.news_articles.raised /\ call.reddit_articles.raised
     /\ call.limit >= 1 /\ call.article_limit >= 1)
        => (call.topics # << >> /\ call.articles # << >>)


\* C31: the record generate_recommendations_batch returns has successful +
\* failed + skipped = total_users = len(user_ids) = len(results), and
\* results[i] is the outcome of the run for user_ids[i]: every id of the list
\* is processed once, in list order.
BatchCountsAddUp ==
    /\ tally.total_users = Len(user_ids)
    /\ pc = "returned" =>
        /\ tally.successful + tally.failed + tally.skipped = tally.total_users
        /\ Len(results) = tally.total_users
        /\ \A i \in 1..Len(user_ids) :
               results[i].user_id = user_ids[i] /\ "user_id" \in results[i].keys
    /\ pc = "run_done" =>
        (idx = Len(results) + 1 /\ result.user_id = user_ids[idx])

\* a batch of three returned with runs that succeeded, failed and were skipped
BatchOfThreeKinds ==
    /\ pc = "returned"
    /\ Len(user_ids) = 3
    /\ tally.successful >= 1 /\ tally.failed >= 1 /\ tally.skipped >= 1


\* the second run of the batch is for the user of the first run, which ended
\* in SUCCESS less than 24 hours before, and is not forced
RepeatedWithinThreshold ==
    /\ idx = 2
    /\ user_ids[1] = user_ids[2]
    /\ IsSuccessful(results[1])
    /\ ~force_update
    /\ now - results[1].timestamp < 24

\* C32, as claimed: a non-forced run for a user that starts less than 24
\* hours after a run for that user ended in SUCCESS ends in SKIPPED and
\* leaves the stored recommendations unchanged.
RepeatedRunIsSkipped ==
    (RunReturned /\ RepeatedWithinThreshold) =>
        (IsSkipped(result) /\ users = obs.users0)

\* C32, amended: such a run leaves the store unchanged, gets as far as the
\* update in no case, and ends in SKIPPED unless the lookup of the user
\* fails, in which case it ends in FAILED; a non-forced batch that names
\* a user twice with less than 24 hours between the runs writes the user's
\* document at most once.
RepeatedRunWritesNothing ==
    /\ RepeatedWithinThreshold =>
        /\ users = obs.users0
        /\ pc \notin {"get_articles", "candidates", "trending", "llm_call", "process",
                      "write_read", "write_replace"}
        /\ RunReturned =>
            /\ IsSkipped(result) <=> ~(obs.lookup_raised \/ obs.not_found)
            /\ IsFailed(result) <=> (obs.lookup_raised \/ obs.not_found)
    /\ (/\ pc = "returned" /\ ~force_update /\ Len(user_ids) = 2
        /\ user_ids[1] = user_ids[2]
        /\ now - results[1].timestamp < 24)
          => tally.successful <= 1

\* the second run started 23 hours after the first one succeeded and was
\* skipped
SecondRunSkippedAfter23Hours ==
    /\ RunReturned
    /\ RepeatedWithinThreshold
    /\ now - results[1].timestamp = 23
    /\ IsSkipped(result)
    /\ users[user_id].recommendations_updated_at = NaiveStamp(results[1].timestamp)


\* the chat endpoint returned a reply and parsing it gave empty lists
ReplyParsedEmpty ==
    /\ obs.llm_called /\ ~obs.llm_raised
    /\ pc \in {"process", "write_read", "write_replace", "run_done"}
    /\ llm_out = EmptyOutput

\* the user's document holds empty recommendation lists stamped now
StoredEmptyNow(uid) ==
    /\ users[uid].tags_recommendation = << >>
    /\ users[uid].articles_recommendation = << >>
    /\ users[uid].recommendations_updated_at = NaiveStamp(now)

\* C33, as claimed: when the reply cannot be parsed, the run goes on to the
\* write-back, overwrites the stored tags_recommendation and
\* articles_recommendation with empty lists, refreshes
\* recommendations_updated_at and returns success=true.
UnparsedReplyOverwrites ==
    (RunReturned /\ ReplyParsedEmpty) =>
        (StoredEmptyNow(user_id) /\ IsSuccessful(result))

\* C33, amended: when the reply cannot be parsed the run goes on to the
\* write-back with empty lists; when the update goes through, the stored
\* lists are empty, the stamp is refreshed and the run returns success=true
\* with empty lists; when the update's read or replace fails, the store is
\* unchanged and the run returns success=false.
UnparsedReplyReachesWriteBack ==
    (RunReturned /\ ReplyParsedEmpty) =>
        /\ recommendations = EmptyOutput
        /\ obs.update_read # "none"
        /\ IF obs.update_replace = "ok"
           THEN /\ StoredEmptyNow(user_id)
                /\ IsSuccessful(result)
                /\ result.tags_recommendation = << >>
                /\ result.articles_recommendation = << >>
           ELSE users = obs.users0 /\ IsFailed(result)

\* recommendations stored by an earlier run were overwritten with empty
\* lists after a reply that could not be parsed
StoredTagsWipedByUnparsedReply ==
    /\ RunReturned /\ ReplyParsedEmpty
    /\ obs.users0[user_id].tags_recommendation # << >>
    /\ StoredEmptyNow(user_id)
    /\ IsSuccessful(result)


\* the list of the user's stored document that records interactions of a kind
StoredList(uid, kind) ==
    CASE kind = "liked" -> users[uid].liked_articles
      [] kind = "bookmarked" -> users[uid].bookmarked_articles
      [] OTHER -> users[uid].disliked_articles

\* C34: when another writer changes the user's liked_articles,
\* bookmarked_articles or disliked_articles while update_user_recommendations
\* runs, the document after the replace still holds what that writer wrote.
NoLostInteraction ==
    (call.op = "external_writer" /\ RunReturned /\ obs.update_replace = "ok") =>
        \A i \in 1..Len(call.writes) :
            call.writes[i].id \in Range(StoredList(user_id, call.writes[i].kind))


\* C35: when two users' runs are interleaved on one engine, the
\* interaction_types on the articles a run hands to the LLM helper are the
\* types of that run's own user.
RunsHandOwnTypes ==
    call.op = "concurrent_runs" =>
        \A r \in 1..2 :
            call.runs[r].pc = "done" =>
                \A i \in 1..Len(call.runs[r].handed) :
                    call.runs[r].handed[i]["interaction_types"]
                        = interaction_types(call.runs[r].user, call.runs[r].handed[i].id)


\* the call was given a list of distinct ids
DistinctRequest ==
    /\ call.op = "get_articles_by_ids_optimized"
    /\ call.done
    /\ \A i, j \in 1..Len(call.article_ids) :
          call.article_ids[i] = call.article_ids[j] => i = j

\* the requested ids that the store holds
RequestedInStore == Range(call.article_ids) \cap ArticleIds

EachIdOnce(articles) ==
    \A i, j \in 1..Len(articles) : articles[i].id = articles[j].id => i = j

\* C36 as stated: for a list of distinct ids, whatever the cache holds and
\* whether or not the query of the cached path raises,
\* get_articles_by_ids_optimized returns exactly the requested ids that the
\* store holds, each once.
OptimizedReturnsRequestedInStore ==
    DistinctRequest =>
        /\ IdsOf(call.returned) = RequestedInStore
        /\ EachIdOnce(call.returned)

\* C36: for a list of distinct ids and whatever the cache holds,
\* get_articles_by_ids_optimized returns each id at most once and only
\* requested ids that the store holds; it returns all of them when the
\* query of the cached path does not raise, and otherwise it returns what
\* get_articles_by_ids returns for the same list, which is all of them
\* unless the batched query and a per-id read raise as well.
OptimizedSameIdsAsPlainFetch ==
    DistinctRequest =>
        /\ EachIdOnce(call.returned)
        /\ IdsOf(call.returned) \subseteq RequestedInStore
        /\ ~call.fell_back => IdsOf(call.returned) = RequestedInStore
        /\ call.fell_back =>
              /\ call.returned = get_articles_by_ids(call.article_ids, call.batch, call.readable)
              /\ (call.batch = "ok" \/ RequestedInStore \subseteq call.readable) =>
                    IdsOf(call.returned) = RequestedInStore

\* the query for a missed id raised while another requested id was fresh in
\* the cache, and the call returned both articles
QueryRaisedOnPartialHit ==
    /\ DistinctRequest
    /\ call.fell_back
    /\ call.query = "raise"
    /\ \E id \in Range(call.article_ids) :
          /\ id \in DOMAIN call.cache_before
          /\ is_cache_valid(call.cache_before[id], call.time)
    /\ Len(call.returned) = 2
    /\ IdsOf(call.returned) = RequestedInStore


RECURSIVE TagsDrawnFrom(_, _)
\* the stored tags are entries of parsed, in the order of parsed, with
\* their tag and score
TagsDrawnFrom(stored, parsed) ==
    IF stored = << >> THEN TRUE
    ELSE IF parsed = << >> THEN FALSE
    ELSE IF Head(stored).tag = Head(parsed).tag /\ Head(stored).score = Head(parsed).score
         THEN TagsDrawnFrom(Tail(stored), Tail(parsed))
         ELSE TagsDrawnFrom(stored, Tail(parsed))

RECURSIVE ArticlesDrawnFrom(_, _)
\* the stored articles are entries of parsed, in the order of parsed, with
\* their id and score
ArticlesDrawnFrom(stored, parsed) ==
    IF stored = << >> THEN TRUE
    ELSE IF parsed = << >> THEN FALSE
    ELSE IF Head(parsed).id = JStr(Head(stored).id) /\ Head(stored).score = Head(parsed).score
         THEN ArticlesDrawnFrom(Tail(stored), Tail(parsed))
         ELSE ArticlesDrawnFrom(stored, Tail(parsed))

ProcessedReply == call.op = "_parse_llm_only_output" /\ call.stage = "stored"

\* C37: however many entries the reply holds, the lists to store hold at
\* most MaxStoredEntries tags and articles; every stored entry is one of the
\* first MaxStoredEntries parsed entries of its list, in reply order; when
\* the ids of those article entries are strings every one of those tags is
\* stored, and every one of those articles whose id is not empty; a stored
\* tag has the keys tag and score only, a stored article id, score and
\* abstract only.
StoredListsCapped ==
    ProcessedReply =>
        LET first_tags == Take(call.out.tags, MaxStoredEntries)
            first_articles == Take(call.out.articles, MaxStoredEntries)
        IN /\ Len(call.stored.tags) <= MaxStoredEntries
           /\ Len(call.stored.articles) <= MaxStoredEntries
           /\ TagsDrawnFrom(call.stored.tags, first_tags)
           /\ ArticlesDrawnFrom(call.stored.articles, first_articles)
           /\ (\A i \in 1..Len(first_articles) : first_articles[i].id.k = "str") =>
                 /\ Len(call.stored.tags) = Len(first_tags)
                 /\ Len(call.stored.articles)
                        = Cardinality({i \in 1..Len(first_articles) : first_articles[i].id.s # ""})
           /\ \A i \in 1..Len(call.stored.tags) :
                 DOMAIN call.stored.tags[i] = {"tag", "score"}
           /\ \A i \in 1..Len(call.stored.articles) :
                 DOMAIN call.stored.articles[i] = {"id", "score", "abstract"}

\* a reply with more than MaxStoredEntries valid tags and articles, some of
\* them flagged wildcard, was cut to MaxStoredEntries of each
LongReplyCut ==
    /\ ProcessedReply
    /\ Len(call.out.tags) > MaxStoredEntries
    /\ Len(call.out.articles) > MaxStoredEntries
    /\ \E i \in 1..MaxStoredEntries : call.out.tags[i].wildcard
    /\ Len(call.stored.tags) = MaxStoredEntries
    /\ Len(call.stored.articles) = MaxStoredEntries
    /\ call.stored.tags[MaxStoredEntries].tag = JStr("n20")


\* C38: every score in the tag_scores map of _extract_tag_preferences lies
\* between 1 and 5.
TagScoresInRange ==
    (call.op = "TagAnalyzer" /\ call.extracted) =>
        \A tag \in DOMAIN call.tag_scores :
            /\ call.tag_scores[tag] >= 1 * ScoreScale
            /\ call.tag_scores[tag] <= 5 * ScoreScale

\* C39: _calculate_diversity_score returns a value between 0 and 1.
DiversityInUnitRange ==
    (call.op = "TagAnalyzer" /\ call.calculated) =>
        (call.diversity >= 0 /\ call.diversity <= ScoreScale)

=============================================================================
